---- MODULE Spec2Model ----
(***************************************************************************)
(* Tracking coordinators of immersive-op: ImmersiveBackground (main.js)    *)
(* and SpotlightBackground (main-spotlight.js) with the estimators they    *)
(* arbitrate: FaceTracker, GyroscopeTracker, FallbackAnimator and the      *)
(* pointer listeners.  One step of the model is one task of the browser's  *)
(* event loop: a handler runs up to its next await on an external promise  *)
(* (script load, getUserMedia, video ready, requestPermission, timers).    *)
(***************************************************************************)
EXTENDS Integers, FiniteSets, Sequences, TLC

\* ---- bounds ----
MaxClicks == 2        \* click handlers that may be awaiting requestPermission at once
MaxSpeedExp == 2      \* how often setSpeed(speed * 0.3) may be applied in one run
NReadings == 2        \* distinct reading values an estimator may emit
Grid == 10            \* the unit interval is sampled at the points n / Grid
MaxFaceSize == 16     \* largest bounding-box area of a detection, in area units
MaxAngle == 40        \* largest tilt away from the neutral pose, in degrees
MaxTime == 3          \* latest animation-frame timestamp, in clock ticks
MaxElapsed == 4       \* longest smoothing run, in steps of 16.67 / SubSteps ms
MaxCalls == 3         \* longest sequence of calls made on one camera controller
MaxRequests == 5      \* how many animation frames one run may request
MaxStarts == 2        \* how many times start() is called on one face tracker
MaxResults == 3       \* how many detection results one face tracker handles
MaxViewport == 6      \* largest viewport width and height, in pixels
MaxEstimate == 60     \* largest smoothed estimate, in units of the least positive double

Readings == 1..NReadings
Builds == {"immersive", "spotlight"}

VARIABLES
  build,             \* which entry point is bundled
  caps,              \* utils/device.js answers, fixed for the session
  mq,                \* window.matchMedia('(prefers-reduced-motion: reduce)').matches
  pc,                \* position of init()
  bg,                \* coordinator fields
  fallbackAnimator,  \* FallbackAnimator fields
  faceTracker,       \* FaceTracker fields
  gyroscopeTracker,  \* GyroscopeTracker fields
  permissionButton,  \* the #enable-motion control
  pendingPerm,       \* click handlers awaiting DeviceOrientationEvent.requestPermission()
  cons,              \* what the consumers hold
  calls,             \* number of calls made to the browser APIs
  calc               \* a pure function of the estimators: its input and its result

vars == <<build, caps, mq, pc, bg, fallbackAnimator, faceTracker,
          gyroscopeTracker, permissionButton, pendingPerm, cons, calls, calc>>

\* ---- exact fractions: <<n, d>> with d > 0 and in lowest terms is n / d ----
Abs(n) == IF n < 0 THEN -n ELSE n

RECURSIVE GCD(_, _)
GCD(a, b) == IF b = 0 THEN a ELSE GCD(b, a % b)

Q(n, d) ==
  LET g == GCD(Abs(n), Abs(d))
      sign == IF d < 0 THEN -1 ELSE 1
  IN <<(sign * n) \div g, Abs(d) \div g>>

QNeg(a) == <<-a[1], a[2]>>

\* sums are formed over the least common denominator
QAdd(a, b) ==
  LET g == GCD(a[2], b[2])
  IN Q(a[1] * (b[2] \div g) + b[1] * (a[2] \div g), (a[2] \div g) * b[2])

QSub(a, b) == QAdd(a, QNeg(b))

QMul(a, b) == Q(a[1] * b[1], a[2] * b[2])

\* a / b for b # 0
QDiv(a, b) == Q(a[1] * b[2], a[2] * b[1])

QLess(a, b) == a[1] * b[2] < b[1] * a[2]

QLeq(a, b) == a[1] * b[2] <= b[1] * a[2]


QAbs(a) == <<Abs(a[1]), a[2]>>

\* ---- utils/math.js ----
lerp(start, end, t) == QAdd(start, QMul(QSub(end, start), t))

\* Math.min(Math.max(value, min), max)
clamp(value, min, max) ==
  LET lower == IF QLess(value, min) THEN min ELSE value
  IN IF QLess(max, lower) THEN max ELSE lower

normalize(value, min, max) ==
  IF max = min THEN Q(0, 1) ELSE QDiv(QSub(value, min), QSub(max, min))

\* a mapRange that forgets to add outMin
mapRange_fromZero(value, inMin, inMax, outMin, outMax) ==
  QMul(QSub(outMax, outMin), normalize(value, inMin, inMax))

mapRange(value, inMin, inMax, outMin, outMax) ==
  QAdd(outMin, QMul(QSub(outMax, outMin), normalize(value, inMin, inMax)))

\* ---- utils/device.js ----
Capabilities ==
  { c \in [webgl : BOOLEAN, isMobile : BOOLEAN, hasGyroscope : BOOLEAN,
           needsPermission : BOOLEAN, hasCamera : BOOLEAN] :
      c.needsPermission => c.hasGyroscope }

supportsWebGL == caps.webgl
isMobile == caps.isMobile
hasGyroscope == caps.hasGyroscope
gyroscopeNeedsPermission == caps.needsPermission
hasCameraAccess == caps.hasCamera
prefersReducedMotion == mq

\* ---- constructors ----
NewFallbackAnimator ==
  [exists |-> TRUE, isRunning |-> FALSE, speedExp |-> 0, reducedRadius |-> FALSE]

NoFallbackAnimator ==
  [exists |-> FALSE, isRunning |-> FALSE, speedExp |-> 0, reducedRadius |-> FALSE]

NoFaceTracker ==
  [exists |-> FALSE, isInitialized |-> FALSE, isRunning |-> FALSE,
   startPc |-> "idle", videoInDom |-> FALSE, stream |-> FALSE,
   preview |-> "none", sends |-> 0, timers |-> 0, handleLive |-> FALSE,
   calibrated |-> FALSE, stopped |-> FALSE, error |-> "none"]

NewFaceTracker == [NoFaceTracker EXCEPT !.exists = TRUE]

NoGyroscopeTracker ==
  [exists |-> FALSE, isRunning |-> FALSE, hasPermission |-> FALSE,
   needsPermission |-> FALSE]

NewGyroscopeTracker ==
  [exists |-> TRUE, isRunning |-> FALSE, hasPermission |-> FALSE,
   needsPermission |-> gyroscopeNeedsPermission]

NewBackground ==
  [reducedMotion |-> prefersReducedMotion, activeTracker |-> "null",
   isMouseTracking |-> FALSE, isRunning |-> FALSE, hidden |-> FALSE,
   settleTimer |-> "none"]

NoReading ==
  [offset |-> 0, cam |-> 0, parallax |-> 0, overlay |-> 0, user |-> 0,
   src |-> "none"]

\* in holds what the inputs are drawn from, out the result
NoCalc == [fn |-> "none", in |-> <<0, 0>>, out |-> <<0, 0>>]

Init ==
  /\ build \in Builds
  /\ caps \in Capabilities
  /\ mq \in BOOLEAN
  /\ pc = "constructed"
  /\ bg = NewBackground
  /\ fallbackAnimator = NoFallbackAnimator
  /\ faceTracker = NoFaceTracker
  /\ gyroscopeTracker = NoGyroscopeTracker
  /\ permissionButton = [shown |-> FALSE, listener |-> FALSE]
  /\ pendingPerm = 0
  /\ cons = NoReading
  /\ calls = [gum |-> 0, perm |-> 0, faceStart |-> 0]
  /\ calc = NoCalc

\* ---- FallbackAnimator (tracking/fallback.js) ----
Fallback_start(f) == [f EXCEPT !.isRunning = TRUE]

Fallback_stop(f) == [f EXCEPT !.isRunning = FALSE]

\* setSpeed(this.config.fallbackAnimationSpeed * 0.3): the argument is read
\* from the configuration object that setSpeed itself overwrites
Fallback_setSpeed(f) == [f EXCEPT !.speedExp = f.speedExp + 1]

Fallback_setRadius(f) == [f EXCEPT !.reducedRadius = TRUE]

\* ---- GyroscopeTracker ----
Gyro_isAvailable == hasGyroscope

\* start() on the paths where it needs no further prompt; TRUE iff it resolves true
Gyro_startOk(g) == Gyro_isAvailable /\ (g.needsPermission => g.hasPermission)

Gyro_start(g) == IF Gyro_startOk(g) THEN [g EXCEPT !.isRunning = TRUE] ELSE g

Gyro_stop(g) == [g EXCEPT !.isRunning = FALSE]

\* what a stop() call takes away: the orientation listener, if one is registered
Gyro_stopEffects(g) == IF g.isRunning THEN {"removeEventListener"} ELSE {}

\* ---- FaceTracker ----
\* detectFace(): one pass of the detection loop body
Face_detectFace(t) ==
  IF ~t.isRunning THEN t
  ELSE IF t.stream /\ t.isInitialized
       THEN [t EXCEPT !.sends = t.sends + 1]
       ELSE [t EXCEPT !.timers = t.timers + 1, !.handleLive = TRUE]

\* a stop() that stops the tracks but leaves them in video.srcObject
Face_stop_keepsSrcObject(t) ==
  [t EXCEPT !.isRunning = FALSE,
            !.timers = IF t.handleLive THEN t.timers - 1 ELSE t.timers,
            !.handleLive = FALSE,
            !.videoInDom = FALSE,
            !.preview = IF t.preview = "none" THEN "none" ELSE "removed",
            !.stopped = TRUE]

Face_stop(t) ==
  [t EXCEPT !.isRunning = FALSE,
            !.timers = IF t.handleLive THEN t.timers - 1 ELSE t.timers,
            !.handleLive = FALSE,
            !.stream = FALSE,
            !.videoInDom = FALSE,
            !.preview = IF t.preview = "none" THEN "none" ELSE "removed",
            !.stopped = TRUE]

\* the guarded branches of stop() that are taken: what the call releases
Face_stopEffects(t) ==
  (IF t.handleLive THEN {"clearTimeout"} ELSE {})
    \cup (IF t.stream THEN {"track.stop"} ELSE {})
    \cup (IF t.videoInDom THEN {"removeChild(video)"} ELSE {})
    \cup (IF t.preview \in {"visible", "hidden"}
          THEN {"removeChild(previewContainer)"} ELSE {})

\* a setPreviewVisible that leaves the container as it is
Face_setPreviewVisible_ignored(t, visible) == t

Face_setPreviewVisible(t, visible) ==
  IF t.preview = "none" THEN t
  ELSE [t EXCEPT !.preview = IF t.preview = "removed" THEN "removed"
                             ELSE IF visible THEN "visible" ELSE "hidden"]

\* start() up to its first await on the browser; stopped records that stop()
\* has returned and start() has not been called since
Face_startBegin(t) ==
  IF ~t.isInitialized
  THEN [t EXCEPT !.videoInDom = TRUE, !.startPc = "loading", !.stopped = FALSE]
  ELSE [t EXCEPT !.startPc = "awaitGUM", !.stopped = FALSE]

\* a start() whose catch block lets the error escape to the caller
Face_startCatch_rethrows(t, cause) ==
  [t EXCEPT !.startPc = "rejected", !.error = cause]

\* start() after initialize() returned false or after its try block threw:
\* the error is logged and start() resolves false
Face_startCatch(t, cause) ==
  [t EXCEPT !.startPc = "failed", !.error = cause]

\* requestPermission(): outcome is what DeviceOrientationEvent.requestPermission
\* answered, "error" standing for a rejection, which the catch block absorbs
Gyro_requestPermission(g, outcome) ==
  [g EXCEPT !.hasPermission = (outcome = "granted")]

\* ---- pointer tracking (SpotlightBackground) ----
\* an enableMouseTracking() that adds the listeners without selecting the pointer
enableMouseTracking_notSelected(b) ==
  IF b.isMouseTracking THEN b
  ELSE [b EXCEPT !.isMouseTracking = TRUE]

enableMouseTracking(b) ==
  IF b.isMouseTracking THEN b
  ELSE [b EXCEPT !.isMouseTracking = TRUE, !.activeTracker = "mouse"]

disableMouseTracking(b) ==
  IF ~b.isMouseTracking THEN b ELSE [b EXCEPT !.isMouseTracking = FALSE]

\* the listeners a disableMouseTracking() call removes
disableMouseTrackingEffects(b) ==
  IF b.isMouseTracking THEN {"mousemove", "touchmove"} ELSE {}

\* ---- the unified callback and the consumers ----
\* a callback that leaves the terminal overlay out
onTrackingUpdate_skipsOverlay(src, r) ==
  cons' = IF build = "immersive"
          THEN [cons EXCEPT !.offset = r, !.cam = r, !.parallax = r, !.src = src]
          ELSE [cons EXCEPT !.user = r, !.src = src]

\* cam, parallax and overlay hold the reading their target was last set from
onTrackingUpdate(src, r) ==
  cons' = IF build = "immersive"
          THEN [cons EXCEPT !.offset = r, !.cam = r, !.parallax = r,
                            !.overlay = r, !.src = src]
          ELSE [cons EXCEPT !.user = r, !.src = src]

\* ---- the interim source: ambient in ImmersiveBackground, pointer in Spotlight ----
\* an interim source that is constructed but neither started nor selected
StartInterim_notStarted ==
  /\ fallbackAnimator' = NewFallbackAnimator
  /\ bg' = [bg EXCEPT !.isRunning = TRUE]

StartInterim ==
  IF build = "immersive"
  THEN /\ fallbackAnimator' = Fallback_start(NewFallbackAnimator)
       /\ bg' = [bg EXCEPT !.activeTracker = "fallback", !.isRunning = TRUE]
  ELSE /\ fallbackAnimator' = NewFallbackAnimator
       /\ bg' = [enableMouseTracking(bg) EXCEPT !.isRunning = TRUE]

StopInterim(b) ==
  IF build = "immersive" THEN b ELSE disableMouseTracking(b)

StopInterimAnimator(f) ==
  IF build = "immersive" THEN Fallback_stop(f) ELSE f

\* ---- setupTracking and its branches ----
setupReducedMotion ==
  /\ fallbackAnimator' =
       Fallback_start(Fallback_setRadius(Fallback_setSpeed(NewFallbackAnimator)))
  /\ bg' = [bg EXCEPT !.activeTracker = "fallback", !.isRunning = TRUE]
  /\ UNCHANGED <<faceTracker, gyroscopeTracker, permissionButton>>

setupMobileTracking ==
  IF ~hasGyroscope
  THEN /\ StartInterim
       /\ UNCHANGED <<faceTracker, gyroscopeTracker, permissionButton>>
  ELSE IF gyroscopeNeedsPermission
  THEN \* showPermissionButton('motion')
       /\ gyroscopeTracker' = NewGyroscopeTracker
       /\ permissionButton' = [shown |-> TRUE, listener |-> TRUE]
       /\ StartInterim
       /\ UNCHANGED faceTracker
  ELSE IF Gyro_startOk(NewGyroscopeTracker)
  THEN /\ gyroscopeTracker' = Gyro_start(NewGyroscopeTracker)
       /\ fallbackAnimator' = NewFallbackAnimator
       /\ bg' = [bg EXCEPT !.activeTracker = "gyroscope", !.isRunning = TRUE]
       /\ UNCHANGED <<faceTracker, permissionButton>>
  ELSE /\ gyroscopeTracker' = NewGyroscopeTracker
       /\ StartInterim
       /\ UNCHANGED <<faceTracker, permissionButton>>

setupDesktopTracking ==
  IF ~hasCameraAccess
  THEN /\ StartInterim
       /\ UNCHANGED <<faceTracker, gyroscopeTracker, permissionButton>>
  ELSE /\ faceTracker' = NewFaceTracker
       /\ fallbackAnimator' =
            IF build = "immersive" THEN Fallback_start(NewFallbackAnimator)
            ELSE NewFallbackAnimator
       /\ bg' = [(IF build = "immersive"
                  THEN [bg EXCEPT !.activeTracker = "fallback"]
                  ELSE enableMouseTracking(bg))
                 EXCEPT !.isRunning = TRUE, !.settleTimer = "pending"]
       /\ UNCHANGED <<gyroscopeTracker, permissionButton>>

\* setupTracking(), then setupEventListeners() and start(); start() is the
\* isRunning = TRUE that every branch writes into bg
setupTracking ==
  /\ IF bg.reducedMotion THEN setupReducedMotion
     ELSE IF isMobile THEN setupMobileTracking ELSE setupDesktopTracking
  /\ pc' = "ready"
  /\ UNCHANGED <<calc, build, caps, mq, pendingPerm, cons, calls>>

\* ---- init() ----
\* an init() that goes on without WebGL
InitBegin_ignoresWebGL ==
  /\ pc = "constructed"
  /\ IF build = "immersive"
     THEN /\ pc' = "loading"
          /\ UNCHANGED <<calc, build, caps, mq, bg, fallbackAnimator, faceTracker,
                         gyroscopeTracker, permissionButton, pendingPerm,
                         cons, calls>>
     ELSE setupTracking

InitBegin ==
  /\ pc = "constructed"
  /\ IF ~supportsWebGL
     THEN /\ pc' = "unsupported"
          /\ UNCHANGED <<calc, build, caps, mq, bg, fallbackAnimator, faceTracker,
                         gyroscopeTracker, permissionButton, pendingPerm,
                         cons, calls>>
     ELSE IF build = "immersive"
     THEN \* await this.modelLoader.load()
          /\ pc' = "loading"
          /\ UNCHANGED <<calc, build, caps, mq, bg, fallbackAnimator, faceTracker,
                         gyroscopeTracker, permissionButton, pendingPerm,
                         cons, calls>>
     ELSE setupTracking

ModelLoaded ==
  /\ pc = "loading"
  /\ setupTracking

\* the preference flips while no change listener is registered yet
PreferenceFlipsUnheard ==
  /\ pc = "loading"
  /\ mq' = ~mq
  /\ UNCHANGED <<calc, build, caps, pc, bg, fallbackAnimator, faceTracker,
                 gyroscopeTracker, permissionButton, pendingPerm, cons, calls>>

\* ---- desktop: the settle timer and FaceTracker.start() ----
\* a continuation that selects the face tracker but leaves the interim source on
onFaceStarted_keepsInterim(t) ==
  /\ fallbackAnimator' = fallbackAnimator
  /\ faceTracker' = IF build = "immersive" THEN t
                    ELSE Face_setPreviewVisible(t, FALSE)
  /\ bg' = [bg EXCEPT !.activeTracker = "face"]

\* the coordinator's code after `await this.faceTracker.start()` returned true
onFaceStarted(t) ==
  /\ fallbackAnimator' = StopInterimAnimator(fallbackAnimator)
  /\ faceTracker' = IF build = "immersive" THEN t
                    ELSE Face_setPreviewVisible(t, FALSE)
  /\ bg' = [StopInterim(bg) EXCEPT !.activeTracker = "face"]

\* a continuation that selects the face tracker although start() returned false
onFaceFailed_selectsFace(t) ==
  /\ faceTracker' = t
  /\ bg' = [StopInterim(bg) EXCEPT !.activeTracker = "face"]
  /\ fallbackAnimator' = StopInterimAnimator(fallbackAnimator)

\* the coordinator's code after `await this.faceTracker.start()` returned false
onFaceFailed(t) ==
  /\ faceTracker' = t
  /\ bg' = IF build = "immersive" THEN bg
           ELSE [bg EXCEPT !.activeTracker = "mouse"]
  /\ UNCHANGED fallbackAnimator

\* setTimeout(..., cameraRequestDelay) fires: faceTracker.start() is called
SettleTimerFires ==
  /\ pc = "ready"
  /\ bg.settleTimer = "pending"
  /\ bg' = [bg EXCEPT !.settleTimer = "fired"]
  /\ faceTracker' = Face_startBegin(faceTracker)
  /\ calls' = [calls EXCEPT !.faceStart = calls.faceStart + 1,
                            !.gum = IF faceTracker.isInitialized
                                    THEN calls.gum + 1 ELSE calls.gum]
  /\ UNCHANGED <<calc, build, caps, mq, pc, fallbackAnimator, gyroscopeTracker,
                 permissionButton, pendingPerm, cons>>

\* the MediaPipe script loads, or fails to: initialize() returns
ScriptSettles ==
  /\ faceTracker.startPc = "loading"
  /\ \E ok \in BOOLEAN :
       IF ok
       THEN /\ faceTracker' = [faceTracker EXCEPT !.isInitialized = TRUE,
                                                  !.startPc = "awaitGUM"]
            /\ calls' = [calls EXCEPT !.gum = calls.gum + 1]
            /\ UNCHANGED <<bg, fallbackAnimator>>
       ELSE /\ onFaceFailed(Face_startCatch(faceTracker, "load"))
            /\ UNCHANGED calls
  /\ UNCHANGED <<calc, build, caps, mq, pc, gyroscopeTracker, permissionButton,
                 pendingPerm, cons>>

\* navigator.mediaDevices.getUserMedia settles
GetUserMediaSettles ==
  /\ faceTracker.startPc = "awaitGUM"
  /\ \E ok \in BOOLEAN :
       IF ok
       THEN /\ faceTracker' = [faceTracker EXCEPT !.stream = TRUE,
                                                  !.startPc = "awaitVideo"]
            /\ UNCHANGED <<bg, fallbackAnimator>>
       ELSE onFaceFailed(Face_startCatch(faceTracker, "getUserMedia"))
  /\ UNCHANGED <<calc, build, caps, mq, pc, gyroscopeTracker, permissionButton,
                 pendingPerm, cons, calls>>

\* the tail of start() once the video plays: createPreview, isRunning, the loop
Face_startFinish(t) ==
  Face_detectFace([t EXCEPT !.preview = "visible", !.isRunning = TRUE,
                            !.startPc = "started"])

\* the video-ready wait settles through the video: metadata loaded and
\* play() resolved, or video.onerror / play() rejected
VideoSettles ==
  /\ faceTracker.startPc = "awaitVideo"
  /\ \E ok \in BOOLEAN :
       /\ ok => faceTracker.stream
       /\ IF ok
          THEN onFaceStarted(Face_startFinish(faceTracker))
          ELSE onFaceFailed(Face_startCatch(faceTracker, "video"))
  /\ UNCHANGED <<calc, build, caps, mq, pc, gyroscopeTracker, permissionButton,
                 pendingPerm, cons, calls>>

\* a video-ready wait whose 5 s timer rejects nothing
VideoTimeout_unarmed ==
  /\ faceTracker.startPc = "awaitVideo"
  /\ UNCHANGED vars

\* the 5 s timer of the video-ready wait fires before the video is ready
VideoTimeout ==
  /\ faceTracker.startPc = "awaitVideo"
  /\ onFaceFailed(Face_startCatch(faceTracker, "timeout"))
  /\ UNCHANGED <<calc, build, caps, mq, pc, gyroscopeTracker, permissionButton,
                 pendingPerm, cons, calls>>

\* ---- the detection loop ----
\* handleResults(results): detected is whether results.detections is non-empty
Face_handleResults(t, detected) ==
  IF detected THEN [t EXCEPT !.calibrated = TRUE] ELSE t

\* faceDetection.send() settles: results are delivered through onResults, or
\* send throws; either way detectFace then arms the next timer
SendSettles ==
  /\ faceTracker.sends > 0
  /\ \E outcome \in {"face", "noface", "error"}, r \in Readings :
       /\ faceTracker' =
            [Face_handleResults(faceTracker, outcome = "face")
               EXCEPT !.sends = faceTracker.sends - 1,
                      !.timers = faceTracker.timers + 1,
                      !.handleLive = TRUE]
       /\ IF outcome = "error" THEN UNCHANGED cons
          ELSE onTrackingUpdate("face", r)
  /\ UNCHANGED <<calc, build, caps, mq, pc, bg, fallbackAnimator, gyroscopeTracker,
                 permissionButton, pendingPerm, calls>>

\* a detectFace timer fires
DetectTimerFires ==
  /\ faceTracker.timers > 0
  /\ \E tracked \in BOOLEAN :
       /\ tracked => faceTracker.handleLive
       /\ ~tracked => faceTracker.timers > (IF faceTracker.handleLive THEN 1 ELSE 0)
       /\ faceTracker' =
            Face_detectFace([faceTracker EXCEPT
                               !.timers = faceTracker.timers - 1,
                               !.handleLive = faceTracker.handleLive /\ ~tracked])
  /\ UNCHANGED <<calc, build, caps, mq, pc, bg, fallbackAnimator, gyroscopeTracker,
                 permissionButton, pendingPerm, cons, calls>>

\* ---- the other estimators' events ----
\* a deviceorientation event; r = 0 stands for a null beta or gamma
DeviceOrientation ==
  /\ gyroscopeTracker.isRunning
  /\ \E r \in Readings \cup {0} :
       IF r = 0 THEN UNCHANGED cons ELSE onTrackingUpdate("gyroscope", r)
  /\ UNCHANGED <<calc, build, caps, mq, pc, bg, fallbackAnimator, faceTracker,
                 gyroscopeTracker, permissionButton, pendingPerm, calls>>

\* handleMouseMove / handleTouchMove
PointerMove ==
  /\ bg.isMouseTracking
  /\ \E r \in Readings :
       IF bg.activeTracker = "mouse"
       THEN cons' = [cons EXCEPT !.user = r, !.src = "mouse"]
       ELSE UNCHANGED cons
  /\ UNCHANGED <<calc, build, caps, mq, pc, bg, fallbackAnimator, faceTracker,
                 gyroscopeTracker, permissionButton, pendingPerm, calls>>

\* animate(): one frame of the render loop
Animate ==
  /\ pc = "ready"
  /\ bg.isRunning
  /\ \E r \in Readings :
       IF bg.activeTracker = "fallback" /\ fallbackAnimator.isRunning
       THEN onTrackingUpdate("fallback", r)
       ELSE UNCHANGED cons
  /\ UNCHANGED <<calc, build, caps, mq, pc, bg, fallbackAnimator, faceTracker,
                 gyroscopeTracker, permissionButton, pendingPerm, calls>>

\* visibilitychange: pause() when hidden, resume() when shown
VisibilityChange ==
  /\ pc = "ready"
  /\ bg' = [bg EXCEPT !.hidden = ~bg.hidden, !.isRunning = bg.hidden]
  /\ UNCHANGED <<calc, build, caps, mq, pc, fallbackAnimator, faceTracker,
                 gyroscopeTracker, permissionButton, pendingPerm, cons, calls>>

\* ---- mobile: the permission control ----
\* a click on #enable-motion: handleClick runs up to `await requestPermission()`
Click ==
  /\ permissionButton.listener
  /\ pendingPerm < MaxClicks
  /\ gyroscopeTracker.exists /\ gyroscopeTracker.needsPermission
  /\ pendingPerm' = pendingPerm + 1
  /\ calls' = [calls EXCEPT !.perm = calls.perm + 1]
  /\ UNCHANGED <<calc, build, caps, mq, pc, bg, fallbackAnimator, faceTracker,
                 gyroscopeTracker, permissionButton, cons>>

\* a click handler that starts the gyroscope whatever requestPermission() returned
onPermission_ignoresDenial(g, granted) ==
  /\ gyroscopeTracker' = [g EXCEPT !.isRunning = TRUE]
  /\ fallbackAnimator' = StopInterimAnimator(fallbackAnimator)
  /\ bg' = [StopInterim(bg) EXCEPT !.activeTracker = "gyroscope"]

\* the coordinator's code in handleClick after requestPermission() returned
onPermission(g, granted) ==
  IF granted /\ Gyro_startOk(g)
  THEN /\ gyroscopeTracker' = Gyro_start(g)
       /\ fallbackAnimator' = StopInterimAnimator(fallbackAnimator)
       /\ bg' = [StopInterim(bg) EXCEPT !.activeTracker = "gyroscope"]
  ELSE /\ gyroscopeTracker' = g
       /\ UNCHANGED <<bg, fallbackAnimator>>

\* DeviceOrientationEvent.requestPermission() settles for one pending handler
PermissionSettles ==
  /\ pendingPerm > 0
  /\ pendingPerm' = pendingPerm - 1
  /\ \E outcome \in {"granted", "denied", "error"} :
       LET g == Gyro_requestPermission(gyroscopeTracker, outcome)
       IN onPermission(g, g.hasPermission)
  /\ permissionButton' = [shown |-> FALSE, listener |-> FALSE]
  /\ UNCHANGED <<calc, build, caps, mq, pc, faceTracker, cons, calls>>

\* ---- the reduced-motion preference ----
\* switchToFallback() that forgets to stop the face tracker
switchToFallback_keepsFace(w) ==
  [bg |-> [(IF build = "immersive" THEN w.bg ELSE disableMouseTracking(w.bg))
           EXCEPT !.activeTracker = "fallback"],
   fa |-> Fallback_start(w.fa),
   ft |-> w.ft,
   gy |-> IF w.gy.exists THEN Gyro_stop(w.gy) ELSE w.gy]

\* switchToFallback() on the four objects it touches
switchToFallback(w) ==
  [bg |-> [(IF build = "immersive" THEN w.bg ELSE disableMouseTracking(w.bg))
           EXCEPT !.activeTracker = "fallback"],
   fa |-> Fallback_start(w.fa),
   ft |-> IF w.ft.exists THEN Face_stop(w.ft) ELSE w.ft,
   gy |-> IF w.gy.exists THEN Gyro_stop(w.gy) ELSE w.gy]

\* the 'change' listener of the prefers-reduced-motion media query
MotionChange ==
  /\ pc = "ready"
  /\ mq' = ~mq
  /\ IF mq' /\ (build = "immersive" \/ fallbackAnimator.exists)
     THEN /\ fallbackAnimator.speedExp < MaxSpeedExp
          /\ LET w == switchToFallback(
                        [bg |-> [bg EXCEPT !.reducedMotion = TRUE],
                         fa |-> fallbackAnimator, ft |-> faceTracker,
                         gy |-> gyroscopeTracker])
             IN /\ bg' = w.bg
                /\ fallbackAnimator' = Fallback_setSpeed(w.fa)
                /\ faceTracker' = w.ft
                /\ gyroscopeTracker' = w.gy
     ELSE /\ bg' = [bg EXCEPT !.reducedMotion = mq']
          /\ UNCHANGED <<fallbackAnimator, faceTracker, gyroscopeTracker>>
  /\ UNCHANGED <<calc, build, caps, pc, permissionButton, pendingPerm, cons, calls>>

Next ==
  \/ InitBegin
  \/ ModelLoaded
  \/ PreferenceFlipsUnheard
  \/ SettleTimerFires
  \/ ScriptSettles
  \/ GetUserMediaSettles
  \/ VideoSettles
  \/ VideoTimeout
  \/ SendSettles
  \/ DetectTimerFires
  \/ DeviceOrientation
  \/ PointerMove
  \/ Animate
  \/ VisibilityChange
  \/ Click
  \/ PermissionSettles
  \/ MotionChange

Spec == Init /\ [][Next]_vars

TypeOK ==
  /\ build \in Builds
  /\ pc \in {"constructed", "loading", "ready", "unsupported"}
  /\ bg.activeTracker \in {"null", "fallback", "face", "gyroscope", "mouse"}
  /\ faceTracker.sends >= 0 /\ faceTracker.timers >= 0
  /\ pendingPerm \in 0..MaxClicks

\* ---- which sources report running ----
B2N(b) == IF b THEN 1 ELSE 0

RunningCount ==
  B2N(faceTracker.isRunning) + B2N(gyroscopeTracker.isRunning)
    + B2N(fallbackAnimator.isRunning) + B2N(bg.isMouseTracking)

\* C1: once setup has completed, exactly one of the face tracker, the
\* gyroscope tracker, the fallback animator and pointer tracking reports
\* running, in either coordinator.
C1_ExactlyOneRunning == pc = "ready" => RunningCount = 1

\* C2: a reading reaches the consumers only when its producer is the current
\* active source; a detection result handled after FaceTracker.stop() changes
\* no consumer's target.
C2_OnlyActiveSourceReachesConsumers ==
  [][cons' # cons => cons'.src = bg.activeTracker]_vars

\* C3: while the coordinator's reducedMotion flag is true the ambient
\* fallback animator is the active source and is running; no timer, pending
\* start() or click supersedes it.
C3_ReducedMotionKeepsAmbient ==
  (pc = "ready" /\ bg.reducedMotion) =>
    (bg.activeTracker = "fallback" /\ fallbackAnimator.isRunning)

\* C4: right after the reduced-motion change handler has run with
\* matches = true, activeTracker is 'fallback', the fallback animator runs and
\* the face tracker, the gyroscope tracker and the pointer listeners are stopped.
C4_ChangeHandlerForcesAmbient ==
  [][(pc = "ready" /\ ~mq /\ mq') =>
       /\ bg'.activeTracker = "fallback"
       /\ fallbackAnimator'.isRunning
       /\ ~faceTracker'.isRunning
       /\ ~gyroscopeTracker'.isRunning
       /\ ~bg'.isMouseTracking]_vars

\* the handler has run while face tracking was the active source
C4_Witness ==
  /\ pc = "ready" /\ mq /\ bg.reducedMotion
  /\ faceTracker.startPc = "started" /\ ~faceTracker.isRunning
  /\ bg.activeTracker = "fallback" /\ fallbackAnimator.isRunning

\* C5: if prefersReducedMotion() is true when setupTracking runs, that step
\* starts and selects the fallback animator and constructs no FaceTracker or
\* GyroscopeTracker; and without those trackers getUserMedia and
\* requestPermission are never called and the permission button never shown.
C5_ReducedMotionAtSetup ==
  /\ [][(pc # "ready" /\ pc' = "ready" /\ prefersReducedMotion) =>
          /\ fallbackAnimator'.isRunning
          /\ bg'.activeTracker = "fallback"
          /\ ~faceTracker'.exists
          /\ ~gyroscopeTracker'.exists]_vars
  /\ []((pc = "ready" /\ ~faceTracker.exists /\ ~gyroscopeTracker.exists) =>
          (calls.gum = 0 /\ calls.perm = 0 /\ ~permissionButton.shown))

\* ---- the interim source as the claims speak of it ----
InterimRunningIn(fa, b) ==
  IF build = "immersive" THEN fa.isRunning ELSE b.isMouseTracking

InterimActiveIn(fa, b) ==
  /\ InterimRunningIn(fa, b)
  /\ b.activeTracker = (IF build = "immersive" THEN "fallback" ELSE "mouse")

InterimRunning == InterimRunningIn(fallbackAnimator, bg)

InterimActive == InterimActiveIn(fallbackAnimator, bg)

\* C6: on the desktop path with a camera API the interim source is active
\* when setup returns, getUserMedia is not called before the settle timer has
\* fired, and when FaceTracker.start() resolves true the interim source is
\* stopped and activeTracker becomes 'face'.
C6_DesktopInterimThenFace ==
  /\ [][(pc # "ready" /\ pc' = "ready" /\ bg'.settleTimer = "pending") =>
          InterimActiveIn(fallbackAnimator', bg')]_vars
  /\ [](bg.settleTimer # "fired" => calls.gum = 0)
  /\ [][(faceTracker.startPc # "started" /\ faceTracker'.startPc = "started") =>
          (~InterimRunningIn(fallbackAnimator', bg') /\ bg'.activeTracker = "face")]_vars

\* start() has resolved true after one getUserMedia call and face is selected
C6_Witness ==
  /\ faceTracker.startPc = "started" /\ faceTracker.isRunning
  /\ bg.settleTimer = "fired" /\ calls.gum = 1
  /\ bg.activeTracker = "face" /\ ~InterimRunning

\* C7 as stated: once FaceTracker.start() has resolved false the interim
\* source is the active source in every later state, and start() is called at
\* most once.
C7_InterimForeverAfterFailure ==
  /\ faceTracker.startPc = "failed" => InterimActive
  /\ calls.faceStart <= 1

\* C7 amended: if FaceTracker.start() resolves false while the interim source
\* is active, the interim source stays active through that step and through
\* every later step except a reduced-motion change to true; start() is called
\* at most once.
C7_InterimAfterFailureUntilReducedMotion ==
  /\ [][(faceTracker.startPc # "failed" /\ faceTracker'.startPc = "failed"
           /\ InterimActive) => InterimActiveIn(fallbackAnimator', bg')]_vars
  /\ [][(faceTracker.startPc = "failed" /\ InterimActive /\ ~(~mq /\ mq')) =>
          InterimActiveIn(fallbackAnimator', bg')]_vars
  /\ [](calls.faceStart <= 1)

\* start() has resolved false and the interim source is still the active one
C7_Witness ==
  /\ faceTracker.startPc = "failed" /\ calls.faceStart = 1
  /\ bg.settleTimer = "fired" /\ InterimActive

\* ---- the mobile path with a permission-gated sensor ----
PermissionPath == gyroscopeTracker.exists /\ gyroscopeTracker.needsPermission

\* the step is a click handler resuming with 'granted' and a start() that resolved true
GrantedStart ==
  /\ pendingPerm' = pendingPerm - 1
  /\ gyroscopeTracker'.hasPermission
  /\ gyroscopeTracker'.isRunning

\* C8 as stated: with a permission-gated sensor the interim source is active
\* from setup on; the coordinator switches to the gyroscope only when
\* requestPermission() returned granted and start() resolved true; in every
\* other outcome the interim source stays the active source.
C8_InterimUnlessGranted ==
  /\ [][(pc # "ready" /\ pc' = "ready" /\ permissionButton'.shown) =>
          InterimActiveIn(fallbackAnimator', bg')]_vars
  /\ [][(PermissionPath /\ bg.activeTracker # "gyroscope"
           /\ bg'.activeTracker = "gyroscope") => GrantedStart]_vars
  /\ [][(PermissionPath /\ InterimActive
           /\ ~InterimActiveIn(fallbackAnimator', bg')) => GrantedStart]_vars

\* C8 amended: as C8, except that a reduced-motion change to true also ends
\* the interim source (it switches to the ambient animator).
C8_InterimUnlessGrantedOrReducedMotion ==
  /\ [][(pc # "ready" /\ pc' = "ready" /\ permissionButton'.shown) =>
          InterimActiveIn(fallbackAnimator', bg')]_vars
  /\ [][(PermissionPath /\ bg.activeTracker # "gyroscope"
           /\ bg'.activeTracker = "gyroscope") => GrantedStart]_vars
  /\ [][(PermissionPath /\ InterimActive
           /\ ~InterimActiveIn(fallbackAnimator', bg')) =>
          (GrantedStart \/ (~mq /\ mq'))]_vars

\* a click was answered with 'denied' and the interim source is still active
C8_Witness ==
  /\ PermissionPath /\ calls.perm = 1 /\ pendingPerm = 0
  /\ ~gyroscopeTracker.hasPermission /\ ~gyroscopeTracker.isRunning
  /\ ~permissionButton.listener /\ InterimActive

\* C9: DeviceOrientationEvent.requestPermission is invoked at most once per
\* session, whatever the sequence of clicks.
C9_AtMostOnePrompt == calls.perm <= 1

\* ---- which source a tracker name stands for ----
RunningOf(name, ft, gy, fa, b) ==
  CASE name = "face" -> ft.isRunning
    [] name = "gyroscope" -> gy.isRunning
    [] name = "fallback" -> fa.isRunning
    [] name = "mouse" -> b.isMouseTracking
    [] OTHER -> FALSE

\* C10: in every transition from one active source to another the outgoing
\* source is stopped before the incoming estimator is started, so after the
\* switch the outgoing and the incoming estimator are not both running.
C10_OutgoingStoppedOnSwitch ==
  [][(bg.activeTracker # "null" /\ bg'.activeTracker # bg.activeTracker) =>
       ~(/\ RunningOf(bg.activeTracker, faceTracker', gyroscopeTracker',
                      fallbackAnimator', bg')
         /\ RunningOf(bg'.activeTracker, faceTracker', gyroscopeTracker',
                      fallbackAnimator', bg'))]_vars

\* C11: from the return of FaceTracker.stop() until the next start() call,
\* isRunning is false, no detection timer is pending and no camera stream
\* track is live, also when stop() came while start() or a send() was pending.
C11_StopIsFinal ==
  faceTracker.stopped =>
    (~faceTracker.isRunning /\ faceTracker.timers = 0 /\ ~faceTracker.stream)

\* C12: for each estimator a second stop right after a stop changes nothing
\* and releases nothing: stop after stop equals stop, and in the state a stop
\* leaves behind no timer, stream track, DOM node or listener is left for a
\* further stop to clear, stop or remove.
C12_StopIdempotent ==
  /\ Face_stop(Face_stop(faceTracker)) = Face_stop(faceTracker)
  /\ Face_stopEffects(Face_stop(faceTracker)) = {}
  /\ Gyro_stop(Gyro_stop(gyroscopeTracker)) = Gyro_stop(gyroscopeTracker)
  /\ Gyro_stopEffects(Gyro_stop(gyroscopeTracker)) = {}
  /\ Fallback_stop(Fallback_stop(fallbackAnimator)) = Fallback_stop(fallbackAnimator)
  /\ disableMouseTracking(disableMouseTracking(bg)) = disableMouseTracking(bg)
  /\ disableMouseTrackingEffects(disableMouseTracking(bg)) = {}

\* stop() has just released a started face tracker: the state a second stop meets
C12_Witness ==
  /\ faceTracker.stopped /\ faceTracker.startPc = "started"
  /\ faceTracker.preview = "removed" /\ ~faceTracker.videoInDom
  /\ Face_stop(faceTracker) = faceTracker

\* ---- FaceTracker.start() as the coordinator sees it ----
StartPending == {"loading", "awaitGUM", "awaitVideo"}

StartSettled == {"started", "failed"}

\* C13: start() of the face and of the orientation estimator settles with a
\* boolean only: a library load failure, a getUserMedia rejection (denial or
\* missing API), a video error and the video-ready timeout each make
\* FaceTracker.start() resolve false, the orientation estimator starts only
\* when the sensor is available and permitted, and no rejection reaches the
\* coordinator.
C13_StartSettlesWithBoolean ==
  /\ [](faceTracker.startPc \in {"idle"} \cup StartPending \cup StartSettled)
  /\ [](faceTracker.error # "none" => faceTracker.startPc = "failed")
  /\ [][(faceTracker.startPc \in StartPending /\ faceTracker'.startPc \notin StartPending) =>
          /\ faceTracker'.startPc \in StartSettled
          /\ (faceTracker'.startPc = "started") = faceTracker'.isRunning]_vars
  /\ [][(~gyroscopeTracker.isRunning /\ gyroscopeTracker'.isRunning) =>
          Gyro_startOk(gyroscopeTracker')]_vars
  /\ [][(pendingPerm' < pendingPerm /\ ~gyroscopeTracker'.hasPermission) =>
          gyroscopeTracker'.isRunning = gyroscopeTracker.isRunning]_vars

\* the video-ready timeout made start() resolve false
C13_Witness ==
  /\ faceTracker.startPc = "failed" /\ faceTracker.error = "timeout"
  /\ ~faceTracker.isRunning /\ calls.gum = 1

\* a fallback source (ambient or pointer) is selected and running
FallbackSourceActive(fa, b) ==
  \/ b.activeTracker = "fallback" /\ fa.isRunning
  \/ b.activeTracker = "mouse" /\ b.isMouseTracking

\* C14: whenever a start() call on the face or the orientation estimator
\* resolves false, whatever happened while it was pending, the coordinator's
\* next state has a fallback source, ambient or pointer, that is both the
\* active tracker and running.
C14_FalseStartLeavesFallback ==
  [][(faceTracker.startPc \in StartPending /\ faceTracker'.startPc = "failed") =>
       FallbackSourceActive(fallbackAnimator', bg')]_vars

\* C15: in every state where the render loop is running, activeTracker is
\* not null and the source it names is the one that is enabled: 'face' means
\* FaceTracker.isRunning, 'gyroscope' GyroscopeTracker.isRunning, 'fallback'
\* FallbackAnimator.isRunning and 'mouse' isMouseTracking.
C15_ActiveTrackerIsEnabled ==
  (pc = "ready" /\ bg.isRunning) =>
    /\ bg.activeTracker # "null"
    /\ RunningOf(bg.activeTracker, faceTracker, gyroscopeTracker,
                 fallbackAnimator, bg)

\* timers that are armed do fire: the 5 s timer of the video-ready wait
LiveSpec == Init /\ [][Next]_vars /\ WF_vars(VideoTimeout)

\* C16: once getUserMedia has returned a stream, FaceTracker.start() settles:
\* if the video never reports loaded metadata or play() never resolves, the
\* video-ready timeout makes start() resolve false instead of staying pending.
C16_VideoWaitSettles ==
  (faceTracker.startPc = "awaitVideo") ~> (faceTracker.startPc \in StartSettled)

\* the video never became ready although the stream is attached, and start()
\* has resolved false
C16_Witness ==
  /\ faceTracker.startPc = "failed" /\ faceTracker.error = "timeout"
  /\ faceTracker.stream /\ faceTracker.videoInDom

\* ---- the branch setupTracking takes ----
SetupStep == pc # "ready" /\ pc' = "ready"

MobilePath == ~bg.reducedMotion /\ caps.isMobile

DesktopPath == ~bg.reducedMotion /\ ~caps.isMobile

\* what both mobile claims say about a sensor that needs no permission:
\* start() is invoked during setup, no permission control is shown, and a
\* false result starts and selects the interim source
MobileDirectStart ==
  [][(SetupStep /\ MobilePath /\ caps.hasGyroscope /\ ~caps.needsPermission) =>
       /\ gyroscopeTracker'.exists
       /\ ~permissionButton'.shown
       /\ gyroscopeTracker'.isRunning = Gyro_startOk(gyroscopeTracker')
       /\ IF gyroscopeTracker'.isRunning
          THEN bg'.activeTracker = "gyroscope"
          ELSE InterimActiveIn(fallbackAnimator', bg')]_vars

\* C17 as stated: on the mobile path of both builds, without an orientation
\* sensor setup ends with the fallback animator running and selected and no
\* gyroscope tracker constructed; with a sensor that needs no permission
\* start() is invoked during setup without a permission control.
C17_MobileNoSensorAmbient ==
  /\ [][(SetupStep /\ MobilePath /\ ~caps.hasGyroscope) =>
          /\ fallbackAnimator'.isRunning
          /\ bg'.activeTracker = "fallback"
          /\ ~gyroscopeTracker'.exists]_vars
  /\ MobileDirectStart

\* C17 amended: as C17, with the build's interim source in place of the
\* ambient one: the fallback animator in ImmersiveBackground, pointer
\* tracking in SpotlightBackground.
C17_MobileNoSensorInterim ==
  /\ [][(SetupStep /\ MobilePath /\ ~caps.hasGyroscope) =>
          /\ InterimActiveIn(fallbackAnimator', bg')
          /\ (build = "spotlight" => ~fallbackAnimator'.isRunning)
          /\ ~gyroscopeTracker'.exists]_vars
  /\ MobileDirectStart

\* setup has ended on a mobile device without a sensor, on the pointer source
C17_Witness ==
  /\ pc = "ready" /\ caps.isMobile /\ ~caps.hasGyroscope /\ ~bg.reducedMotion
  /\ build = "spotlight" /\ InterimActive /\ ~gyroscopeTracker.exists
  /\ ~fallbackAnimator.isRunning

\* what both desktop claims say besides the source: no FaceTracker, no settle
\* timer and no getUserMedia call, at setup and ever after
DesktopNoCameraQuiet ==
  /\ [][(SetupStep /\ DesktopPath /\ ~caps.hasCamera) =>
          (~faceTracker'.exists /\ bg'.settleTimer = "none")]_vars
  /\ [](~caps.hasCamera =>
          (~faceTracker.exists /\ bg.settleTimer = "none" /\ calls.gum = 0))

\* C18 as stated: on the desktop path of both builds, without a camera API
\* setup ends with the pointer source active, no FaceTracker constructed, no
\* settle timer scheduled and getUserMedia never called.
C18_DesktopNoCameraPointer ==
  /\ [][(SetupStep /\ DesktopPath /\ ~caps.hasCamera) =>
          (bg'.activeTracker = "mouse" /\ bg'.isMouseTracking)]_vars
  /\ DesktopNoCameraQuiet

\* C18 amended: as C18, with the build's interim source in place of the
\* pointer: the fallback animator in ImmersiveBackground, pointer tracking in
\* SpotlightBackground.
C18_DesktopNoCameraInterim ==
  /\ [][(SetupStep /\ DesktopPath /\ ~caps.hasCamera) =>
          InterimActiveIn(fallbackAnimator', bg')]_vars
  /\ DesktopNoCameraQuiet

\* setup has ended on a desktop without a camera API, on the ambient source
C18_Witness ==
  /\ pc = "ready" /\ ~caps.isMobile /\ ~caps.hasCamera /\ ~bg.reducedMotion
  /\ build = "immersive" /\ InterimActive /\ ~faceTracker.exists
  /\ bg.settleTimer = "none" /\ calls.gum = 0

\* C19: every reading the unified callback of ImmersiveBackground takes is
\* handed in the same step to the camera rig, the parallax layers and the
\* terminal overlay: currentTrackingOffset is that reading and each
\* consumer's target was set from that same reading.
C19_BroadcastSameReading ==
  build = "immersive" =>
    /\ cons.cam = cons.offset
    /\ cons.parallax = cons.offset
    /\ cons.overlay = cons.offset

\* a face reading has replaced an earlier one in all consumers
C19_Witness ==
  /\ build = "immersive" /\ cons.src = "face"
  /\ cons.offset = NReadings /\ cons.cam = NReadings
  /\ cons.parallax = NReadings /\ cons.overlay = NReadings

\* ---- handleResults: from the detection's centre to the raw offset ----
\* rawX and rawY of a detection whose bounding-box centre is (centerX, centerY)
Face_rawXY(centerX, centerY) ==
  <<mapRange(centerX, Q(0, 1), Q(1, 1), Q(1, 1), Q(-1, 1)),
    mapRange(centerY, Q(0, 1), Q(1, 1), Q(1, 1), Q(-1, 1))>>

\* a detection arrives with its centre (in[1] / Grid, in[2] / Grid) anywhere
\* on the grid over [0,1] x [0,1]
CalcInit ==
  /\ build = "immersive"
  /\ caps = [webgl |-> TRUE, isMobile |-> FALSE, hasGyroscope |-> FALSE,
             needsPermission |-> FALSE, hasCamera |-> TRUE]
  /\ mq = FALSE
  /\ pc = "constructed"
  /\ bg = NewBackground
  /\ fallbackAnimator = NoFallbackAnimator
  /\ faceTracker = NoFaceTracker
  /\ gyroscopeTracker = NoGyroscopeTracker
  /\ permissionButton = [shown |-> FALSE, listener |-> FALSE]
  /\ pendingPerm = 0
  /\ cons = NoReading
  /\ calls = [gum |-> 0, perm |-> 0, faceStart |-> 0]
  /\ \E centerX \in 0..Grid, centerY \in 0..Grid :
       calc = [NoCalc EXCEPT !.in = <<centerX, centerY>>]

\* handleResults maps the centre
CalcFaceXY ==
  /\ calc.fn = "none"
  /\ calc' = [calc EXCEPT !.fn = "rawXY",
                          !.out = Face_rawXY(Q(calc.in[1], Grid),
                                             Q(calc.in[2], Grid))]
  /\ UNCHANGED <<build, caps, mq, pc, bg, fallbackAnimator, faceTracker,
                 gyroscopeTracker, permissionButton, pendingPerm, cons, calls>>

CalcNext == CalcFaceXY

CalcSpec == CalcInit /\ [][CalcNext]_vars

SessionIdle ==
  /\ build = "immersive"
  /\ caps = [webgl |-> TRUE, isMobile |-> FALSE, hasGyroscope |-> FALSE,
             needsPermission |-> FALSE, hasCamera |-> TRUE]
  /\ mq = FALSE
  /\ pc = "constructed"
  /\ bg = NewBackground
  /\ fallbackAnimator = NoFallbackAnimator
  /\ faceTracker = NoFaceTracker
  /\ gyroscopeTracker = NoGyroscopeTracker
  /\ permissionButton = [shown |-> FALSE, listener |-> FALSE]
  /\ pendingPerm = 0
  /\ cons = NoReading
  /\ calls = [gum |-> 0, perm |-> 0, faceStart |-> 0]

SessionUnchanged ==
  UNCHANGED <<build, caps, mq, pc, bg, fallbackAnimator, faceTracker,
              gyroscopeTracker, permissionButton, pendingPerm, cons, calls>>

\* ---- handleResults: from the detection's size to the raw depth ----
\* sizeRatio = faceSize / baseFaceSize
Face_sizeRatio(faceSize, baseFaceSize) == Q(faceSize, baseFaceSize)

\* rawZ = clamp(mapRange(sizeRatio, 0.6, 1.6, 1, -1), -1, 1)
Face_rawZ(sizeRatio) ==
  clamp(mapRange(sizeRatio, Q(6, 10), Q(16, 10), Q(1, 1), Q(-1, 1)),
        Q(-1, 1), Q(1, 1))

\* a detection of area in[1] arrives after a baseline of area in[2] was captured
DepthInit ==
  /\ SessionIdle
  /\ \E faceSize \in 1..MaxFaceSize, baseFaceSize \in 1..MaxFaceSize :
       calc = [NoCalc EXCEPT !.in = <<faceSize, baseFaceSize>>]

\* handleResults maps the size; out is <<rawZ, sizeRatio>>
CalcFaceZ ==
  /\ calc.fn = "none"
  /\ LET sizeRatio == Face_sizeRatio(calc.in[1], calc.in[2])
     IN calc' = [calc EXCEPT !.fn = "rawZ",
                             !.out = <<Face_rawZ(sizeRatio), sizeRatio>>]
  /\ SessionUnchanged

DepthNext == CalcFaceZ

DepthSpec == DepthInit /\ [][DepthNext]_vars

\* C21: the raw depth is -1 at ratio 1.6 and above, 1 at ratio 0.6 and
\* below, and 0 at ratio 1.0: a face at its calibration size has no depth
\* offset.
C21_DepthOfRatio ==
  calc.fn = "rawZ" =>
    /\ QLeq(Q(16, 10), calc.out[2]) => calc.out[1] = Q(-1, 1)
    /\ QLeq(calc.out[2], Q(6, 10)) => calc.out[1] = Q(1, 1)
    /\ calc.out[2] = Q(1, 1) => calc.out[1] = Q(0, 1)

\* ---- handleResults without a detection: the estimate decays ----
\* the nearest whole number to n / d, for d > 0 (no tie occurs where it is used)
RoundDiv(n, d) == IF n >= 0 THEN (2 * n + d) \div (2 * d)
                  ELSE -((2 * (-n) + d) \div (2 * d))

\* a decay that truncates the product instead of rounding it to the nearest value
Face_decay_truncates(v) ==
  IF v >= 0 THEN (v * 92) \div 100 ELSE -(((-v) * 92) \div 100)

\* smoothedPosition.x *= 0.92 on one axis.  v counts units of the least
\* positive double, where doubles are evenly spaced, so the product is
\* rounded to the nearest whole unit (92 v is never half-way between two)
Face_decay(v) == RoundDiv(v * 92, 100)

\* the estimate of one axis when the face disappears
DecayInit ==
  /\ SessionIdle
  /\ \E v \in (-MaxEstimate)..MaxEstimate :
       calc = [NoCalc EXCEPT !.in = <<v, 0>>]

\* one more result without a detection: in is the value emitted for the
\* previous result (the estimate itself before the first), out the value emitted now
CalcFaceDecay ==
  /\ LET previous == IF calc.fn = "none" THEN calc.in[1] ELSE calc.out[1]
     IN calc' = [fn |-> "decay", in |-> <<previous, 0>>,
                 out |-> <<Face_decay(previous), 0>>]
  /\ SessionUnchanged

DecayNext == CalcFaceDecay

DecaySpec == DecayInit /\ [][DecayNext]_vars

\* C22 as stated: for consecutive results without a face each emitted value
\* is 0.92 times the previous one (as the arithmetic rounds it), and from a
\* non-zero estimate the magnitude strictly decreases at every step and is
\* never exactly zero after a step.
C22_DecayStrictlyDecreases ==
  (calc.fn = "decay" /\ calc.in[1] # 0) =>
    /\ Abs(100 * calc.out[1] - 92 * calc.in[1]) <= 50
    /\ Abs(calc.out[1]) < Abs(calc.in[1])
    /\ calc.out[1] # 0

\* C22 amended: each emitted value is 0.92 times the previous one rounded to
\* the nearest representable value; from a non-zero estimate the magnitude
\* never increases and never becomes zero, and it strictly decreases as long
\* as it is at least 7 units of the least positive double.
C22_DecayNeverIncreasesNorVanishes ==
  (calc.fn = "decay" /\ calc.in[1] # 0) =>
    /\ Abs(100 * calc.out[1] - 92 * calc.in[1]) <= 50
    /\ Abs(calc.out[1]) <= Abs(calc.in[1])
    /\ calc.out[1] # 0
    /\ Abs(calc.in[1]) >= 7 => Abs(calc.out[1]) < Abs(calc.in[1])

\* a result without a face has shrunk a non-zero estimate
C22_Witness ==
  /\ calc.fn = "decay" /\ calc.in[1] = -46 /\ calc.out[1] = -42

\* C23: stop() clears the calibration baseline: right after a step in which
\* FaceTracker.stop() was called baseFaceSize is null, so that a restart
\* captures a fresh baseline from its first detection.
C23_StopClearsBaseline ==
  [][(pc = "ready" /\ ~mq /\ mq' /\ faceTracker.exists) =>
       (faceTracker'.stopped /\ ~faceTracker'.calibrated)]_vars

\* ---- GyroscopeTracker.handleOrientation ----
\* what event.beta or event.gamma may hold: a number of degrees, null or NaN
NotANumber == [kind |-> "nan", q |-> Q(0, 1)]

Number(q) == [kind |-> "num", q |-> q]

Angles(lo, hi) ==
  {[kind |-> "num", deg |-> d] : d \in lo..hi}
    \cup {[kind |-> "null", deg |-> 0], [kind |-> "nan", deg |-> 0]}

\* an axis mapping without the clamp to the max-tilt window
Gyro_axis_unclamped(angle, maxTilt, sensitivity) ==
  QMul(mapRange(angle, Q(-maxTilt, 1), Q(maxTilt, 1), Q(-1, 1), Q(1, 1)),
       sensitivity)

\* mapRange(clamp(angle, -gyroMaxTilt, gyroMaxTilt), -gyroMaxTilt,
\* gyroMaxTilt, -1, 1) * gyroSensitivity
Gyro_axis(angle, maxTilt, sensitivity) ==
  QMul(mapRange(clamp(angle, Q(-maxTilt, 1), Q(maxTilt, 1)),
                Q(-maxTilt, 1), Q(maxTilt, 1), Q(-1, 1), Q(1, 1)),
       sensitivity)

\* handleOrientation(event): only null is tested for; NaN goes through
\* Math.max, Math.min and the arithmetic as NaN.  stored tells whether
\* currentOrientation was assigned, emitted whether onUpdate was invoked
Gyro_handleOrientation(beta, gamma, maxTilt, sensitivity) ==
  IF beta.kind = "null" \/ gamma.kind = "null"
  THEN [stored |-> FALSE, emitted |-> FALSE, x |-> Number(Q(0, 1)),
        y |-> Number(Q(0, 1)), z |-> Number(Q(0, 1))]
  ELSE [stored |-> TRUE, emitted |-> TRUE,
        x |-> IF gamma.kind = "nan" THEN NotANumber
              ELSE Number(Gyro_axis(Q(gamma.deg, 1), maxTilt, sensitivity)),
        y |-> IF beta.kind = "nan" THEN NotANumber
              ELSE Number(QNeg(Gyro_axis(Q(beta.deg - 45, 1), maxTilt,
                                         sensitivity))),
        z |-> Number(Q(0, 1))]

\* configurations the page may set: gyroMaxTilt in degrees, gyroSensitivity
MaxTilts == {20, 30}

Sensitivities == {Q(1, 1), Q(1, 2)}

\* an orientation event arrives: in is <<beta, gamma, gyroMaxTilt, gyroSensitivity>>
GyroInit ==
  /\ SessionIdle
  /\ \E beta \in Angles(45 - MaxAngle, 45 + MaxAngle),
        gamma \in Angles(-MaxAngle, MaxAngle),
        maxTilt \in MaxTilts, sensitivity \in Sensitivities :
       calc = [NoCalc EXCEPT !.in = <<beta, gamma, maxTilt, sensitivity>>]

CalcOrientation ==
  /\ calc.fn = "none"
  /\ calc' = [calc EXCEPT !.fn = "orientation",
                          !.out = Gyro_handleOrientation(calc.in[1], calc.in[2],
                                                         calc.in[3], calc.in[4])]
  /\ SessionUnchanged

GyroNext == CalcOrientation

GyroSpec == GyroInit /\ [][GyroNext]_vars

\* C24: handleOrientation invokes onUpdate for no event whose beta or gamma
\* is null or NaN, and such an event leaves currentOrientation unchanged.
C24_InvalidReadingDropped ==
  (calc.fn = "orientation"
     /\ (calc.in[1].kind # "num" \/ calc.in[2].kind # "num")) =>
    (~calc.out.emitted /\ ~calc.out.stored)

\* C25: for every non-null (beta, gamma), max tilt T > 0 and sensitivity s
\* the emitted reading is x = clamp(gamma, -T, T) / T * s, a y of magnitude
\* |clamp(beta - 45, -T, T)| / T * s and z = 0; the neutral pose beta = 45,
\* gamma = 0 gives (0, 0, 0), and |x| <= s and |y| <= s, so within [-1, 1]
\* when s <= 1.
C25_GyroOffsetFormula ==
  (calc.fn = "orientation" /\ calc.in[1].kind = "num" /\ calc.in[2].kind = "num") =>
    LET T == Q(calc.in[3], 1)
        s == calc.in[4]
        clampedGamma == clamp(Q(calc.in[2].deg, 1), QNeg(T), T)
        clampedBeta == clamp(Q(calc.in[1].deg - 45, 1), QNeg(T), T)
        x == calc.out.x
        y == calc.out.y
    IN /\ calc.out.emitted
       /\ x = Number(QMul(QDiv(clampedGamma, T), s))
       /\ y.kind = "num"
       /\ QAbs(y.q) = QMul(QDiv(QAbs(clampedBeta), T), s)
       /\ calc.out.z = Number(Q(0, 1))
       /\ (calc.in[1].deg = 45 /\ calc.in[2].deg = 0) =>
            (x.q = Q(0, 1) /\ y.q = Q(0, 1))
       /\ QLeq(QAbs(x.q), s) /\ QLeq(QAbs(y.q), s)
       /\ QLeq(s, Q(1, 1)) =>
            (QLeq(QAbs(x.q), Q(1, 1)) /\ QLeq(QAbs(y.q), Q(1, 1)))

\* a tilt beyond the window on both axes has been emitted at the full deflection
C25_Witness ==
  /\ calc.fn = "orientation" /\ calc.in[3] = 30 /\ calc.in[4] = Q(1, 2)
  /\ calc.in[1] = [kind |-> "num", deg |-> 45 + 40]
  /\ calc.in[2] = [kind |-> "num", deg |-> -35]
  /\ calc.out.x = Number(Q(-1, 2)) /\ calc.out.y = Number(Q(-1, 2))

\* ---- handleMouseMove / handleTouchMove ----
\* a handler that does not invert the vertical axis
Pointer_position_notInverted(px, py, width, height) ==
  <<QSub(QMul(Q(px, width), Q(2, 1)), Q(1, 1)),
    QSub(QMul(Q(py, height), Q(2, 1)), Q(1, 1))>>

\* x = (clientX / innerWidth) * 2 - 1, y = -((clientY / innerHeight) * 2 - 1)
Pointer_position(px, py, width, height) ==
  <<QSub(QMul(Q(px, width), Q(2, 1)), Q(1, 1)),
    QNeg(QSub(QMul(Q(py, height), Q(2, 1)), Q(1, 1)))>>

\* the handler body: setUserPosition is called only if activeTracker is 'mouse'
Pointer_handleMove(activeTracker, px, py, width, height) ==
  [delivered |-> activeTracker = "mouse",
   position |-> Pointer_position(px, py, width, height)]

\* a pointer or touch event inside the viewport: in is
\* <<activeTracker, clientX, clientY, innerWidth, innerHeight>>
PointerInit ==
  /\ SessionIdle
  /\ \E activeTracker \in {"mouse", "fallback", "face", "gyroscope"},
        width \in 1..MaxViewport, height \in 1..MaxViewport :
       \E px \in 0..width, py \in 0..height :
         calc = [NoCalc EXCEPT !.in = <<activeTracker, px, py, width, height>>]

CalcPointerMove ==
  /\ calc.fn = "none"
  /\ calc' = [calc EXCEPT !.fn = "pointer",
                          !.out = Pointer_handleMove(calc.in[1], calc.in[2],
                                                     calc.in[3], calc.in[4],
                                                     calc.in[5])]
  /\ SessionUnchanged

PointerNext == CalcPointerMove

PointerSpec == PointerInit /\ [][PointerNext]_vars

\* C26: for every pointer or touch position (px, py) inside the viewport the
\* pointer source delivers x = (px / width) * 2 - 1 and
\* y = -((py / height) * 2 - 1), both in [-1, 1] with the top of the screen
\* positive, and it delivers them only while activeTracker is 'mouse'.
C26_PointerFormulaAndGate ==
  calc.fn = "pointer" =>
    LET px == calc.in[2]
        py == calc.in[3]
        width == calc.in[4]
        height == calc.in[5]
        x == calc.out.position[1]
        y == calc.out.position[2]
    IN /\ calc.out.delivered = (calc.in[1] = "mouse")
       /\ x = Q(2 * px - width, width)
       /\ y = Q(height - 2 * py, height)
       /\ QLeq(QAbs(x), Q(1, 1)) /\ QLeq(QAbs(y), Q(1, 1))
       /\ py = 0 => y = Q(1, 1)

\* the pointer in the top left corner has been delivered as (-1, 1)
C26_Witness ==
  /\ calc.fn = "pointer" /\ calc.out.delivered
  /\ calc.in = <<"mouse", 0, 0, 4, 3>>
  /\ calc.out.position = <<Q(-1, 1), Q(1, 1)>>

\* ---- FallbackAnimator.start() and update(time), with the clock ----
\* Math.sin is left uninterpreted: a value is the term that computes it
Sin(angle) == [sin |-> angle]

\* an animator as constructed; started and restarted record the calls made
NewClockedAnimator ==
  [isRunning |-> FALSE, startTime |-> 0, started |-> -1, restarted |-> FALSE,
   emitted |-> <<>>]

\* a start() that keeps the start time of an animation already running
Fallback_startAt_keepsStartTime(f, now) ==
  IF f.isRunning THEN f ELSE [Fallback_start(f) EXCEPT !.startTime = now]

\* start(): isRunning = true, startTime = performance.now()
Fallback_startAt(f, now) == [Fallback_start(f) EXCEPT !.startTime = now]

\* update(time): nothing unless running; otherwise t = elapsed * speed and
\* onUpdate(sin(t * 1 + 0) * radius.x,
\*          sin(t * 2 + PI / 4) * radius.y + sin(t * 0.3) * 0.1, 0)
Fallback_update(f, time, speed, radius) ==
  IF ~f.isRunning THEN f
  ELSE LET elapsed == time - f.startTime
           t == QMul(Q(elapsed, 1), speed)
           x == [value |-> Sin([t |-> QMul(t, Q(1, 1)), quarterPi |-> 0]),
                 times |-> radius[1]]
           y == [value |-> Sin([t |-> QMul(t, Q(2, 1)), quarterPi |-> 1]),
                 times |-> radius[2]]
           breathe == [value |-> Sin([t |-> QMul(t, Q(3, 10)), quarterPi |-> 0]),
                       times |-> Q(1, 10)]
       IN [f EXCEPT !.emitted = <<elapsed, x, <<y, breathe>>, 0>>]

\* the default speed and radius, and the ones of the reduced-motion setting
FallbackConfigs ==
  {<<Q(3, 10000), <<Q(4, 10), Q(25, 100)>>>>,
   <<Q(9, 100000), <<Q(1, 10), Q(5, 100)>>>>}

\* two animators built from the same configuration; out holds the clock
FallbackInit ==
  /\ SessionIdle
  /\ \E config \in FallbackConfigs :
       calc = [fn |-> "fallback", in |-> config,
               out |-> [now |-> 0,
                        anim |-> <<NewClockedAnimator, NewClockedAnimator>>]]

CalcFallbackStart ==
  /\ \E i \in 1..2 :
       LET f == calc.out.anim[i]
           now == calc.out.now
       IN calc' = [calc EXCEPT !.out.anim[i] =
                     [Fallback_startAt(f, now) EXCEPT
                        !.started = now,
                        !.restarted = f.isRunning]]
  /\ SessionUnchanged

CalcFallbackStop ==
  /\ \E i \in 1..2 :
       /\ calc.out.anim[i].isRunning
       /\ calc' = [calc EXCEPT !.out.anim[i] = Fallback_stop(@)]
  /\ SessionUnchanged

CalcFallbackUpdate ==
  /\ \E i \in 1..2 :
       calc' = [calc EXCEPT !.out.anim[i] =
                  Fallback_update(@, calc.out.now, calc.in[1], calc.in[2])]
  /\ SessionUnchanged

CalcFallbackTick ==
  /\ calc.out.now < MaxTime
  /\ calc' = [calc EXCEPT !.out.now = @ + 1]
  /\ SessionUnchanged

FallbackNext ==
  \/ CalcFallbackStart
  \/ CalcFallbackStop
  \/ CalcFallbackUpdate
  \/ CalcFallbackTick

FallbackSpec == FallbackInit /\ [][FallbackNext]_vars

\* C27: start() sets the start time to the time of the call even when the
\* animator is already running, and the offset update(time) emits depends
\* only on time - startTime and the configured speed and radius: two
\* animators with the same configuration and the same elapsed time emit the
\* same (x, y, 0).
C27_StartResetsAndElapsedDecides ==
  calc.fn = "fallback" =>
    /\ \A i \in 1..2 :
         LET f == calc.out.anim[i]
         IN /\ f.started >= 0 => f.startTime = f.started
            /\ f.emitted # <<>> => f.emitted[4] = 0
    /\ \A i, j \in 1..2 :
         LET f == calc.out.anim[i]
             g == calc.out.anim[j]
         IN (f.emitted # <<>> /\ g.emitted # <<>>
             /\ f.emitted[1] = g.emitted[1]) => f.emitted = g.emitted

\* an animator restarted while running, at a later time than the other one,
\* has emitted for the same elapsed time as the other one
C27_Witness ==
  /\ calc.fn = "fallback"
  /\ LET f == calc.out.anim[1]
         g == calc.out.anim[2]
     IN /\ f.restarted /\ f.startTime > g.startTime
        /\ f.emitted # <<>> /\ g.emitted # <<>>
        /\ f.emitted[1] = 1 /\ g.emitted[1] = 1

\* ---- CameraController.update(deltaTime) ----
\* deltaTime is counted in steps of 16.67 / SubSteps milliseconds
SubSteps == 2

RECURSIVE QPow(_, _)
QPow(a, k) == IF k = 0 THEN Q(1, 1) ELSE QMul(a, QPow(a, k - 1))

\* Math.pow(base, exponent) for a fraction exponent[1] / exponent[2] >= 0 and
\* a base that has a root of that order among the small fractions
Pow(base, exponent) ==
  LET root == CHOOSE r \in {Q(n, d) : n \in 0..9, d \in 1..9} :
                QPow(r, exponent[2]) = base
  IN QPow(root, exponent[1])

\* the controller as constructed, with the target a tracking update has set
NewCameraController(targetOffset) ==
  [currentOffset |-> <<Q(0, 1), Q(0, 1), Q(0, 1)>>,
   targetOffset |-> targetOffset, elapsed |-> 0, updates |-> 0]

\* an update that uses the smoothing factor as it is, whatever the step
Camera_update_perFrame(c, smoothing, frames) ==
  [c EXCEPT !.currentOffset =
     [axis \in 1..3 |-> lerp(c.currentOffset[axis], c.targetOffset[axis],
                             smoothing)]]

\* t = 1 - Math.pow(1 - smoothing, deltaTime / 16.67), then each axis of
\* currentOffset = lerp(currentOffset, targetOffset, t)
Camera_update(c, smoothing, frames) ==
  LET t == QSub(Q(1, 1), Pow(QSub(Q(1, 1), smoothing), frames))
  IN [c EXCEPT !.currentOffset =
        [axis \in 1..3 |-> lerp(c.currentOffset[axis], c.targetOffset[axis], t)]]

\* smoothing factors whose complement has a root of order SubSteps
Smoothings ==
  {QSub(Q(1, 1), QPow(r, SubSteps)) : r \in {Q(0, 1), Q(1, 2), Q(1, 3), Q(2, 3)}}

TargetOffsets ==
  {<<Q(1, 2), Q(-3, 10), Q(0, 1)>>, <<Q(-1, 2), Q(1, 5), Q(1, 10)>>}

\* two controllers with one smoothing factor and one target
SmoothInit ==
  /\ SessionIdle
  /\ \E smoothing \in Smoothings, targetOffset \in TargetOffsets :
       calc = [fn |-> "smooth", in |-> <<smoothing, targetOffset>>,
               out |-> <<NewCameraController(targetOffset),
                         NewCameraController(targetOffset)>>]

CalcCameraUpdate ==
  /\ \E i \in 1..2, deltaTime \in 1..MaxElapsed :
       /\ calc.out[i].elapsed + deltaTime <= MaxElapsed
       /\ calc' = [calc EXCEPT !.out[i] =
                     [Camera_update(@, calc.in[1], Q(deltaTime, SubSteps))
                        EXCEPT !.elapsed = @ + deltaTime,
                               !.updates = @ + 1]]
  /\ SessionUnchanged

SmoothNext == CalcCameraUpdate

SmoothSpec == SmoothInit /\ [][SmoothNext]_vars

\* C28: for a fixed smoothing factor and a fixed target, update reaches the
\* same currentOffset after a fixed total elapsed time whether the time is
\* applied as many small steps or as a few large ones: the distance left to
\* the target is (1 - s)^(elapsed / 16.67) times the initial one.
C28_FrameRateIndependent ==
  calc.fn = "smooth" =>
    /\ \A i, j \in 1..2 :
         calc.out[i].elapsed = calc.out[j].elapsed
           => calc.out[i].currentOffset = calc.out[j].currentOffset
    /\ \A i \in 1..2, axis \in 1..3 :
         LET c == calc.out[i]
             left == Pow(QSub(Q(1, 1), calc.in[1]), Q(c.elapsed, SubSteps))
         IN QSub(c.targetOffset[axis], c.currentOffset[axis])
              = QMul(c.targetOffset[axis], left)

\* one controller in four small steps, the other in one large step, both
\* part of the way to the target
C28_Witness ==
  /\ calc.fn = "smooth"
  /\ calc.out[1].updates = 4 /\ calc.out[2].updates = 1
  /\ calc.out[1].elapsed = 4 /\ calc.out[2].elapsed = 4
  /\ calc.out[1].currentOffset[1] # calc.out[1].targetOffset[1]
  /\ calc.out[1].currentOffset[1] # Q(0, 1)

\* ---- config.js: getConfig and deepMerge, with objects held by reference ----
\* a value is a number, null, an array, a reference to an object of the heap
\* or, in the page's configuration, an object literal
Num(n) == [t |-> "num", v |-> n]

Null == [t |-> "null", v |-> 0]

Array == [t |-> "array", v |-> 0]

Ref(addr) == [t |-> "ref", v |-> addr]

Obj(props) == [t |-> "obj", v |-> props]

EmptyObject == [key \in {} |-> Null]

\* object[key] = value
Assign(object, key, value) ==
  [k \in DOMAIN object \cup {key} |-> IF k = key THEN value ELSE object[k]]

\* DEFAULT_CONFIG is the object at address 1; its fallbackAnimationRadius is
\* the object at address 2
DefaultHeap ==
  <<[fallbackAnimationSpeed |-> Num(3), fallbackAnimationRadius |-> Ref(2)],
    [x |-> Num(40), y |-> Num(25)]>>

DEFAULT_CONFIG == 1

\* the object literals a page may give for an option
PageObjects ==
  LET Choices == {"absent", "num", "null"}
      Value(c) == IF c = "num" THEN Num(7) ELSE Null
      Literal(cx, cy) ==
        [k \in {key \in {"x", "y"} :
                  (key = "x" /\ cx # "absent") \/ (key = "y" /\ cy # "absent")}
           |-> IF k = "x" THEN Value(cx) ELSE Value(cy)]
  IN {Obj(Literal(cx, cy)) : cx \in Choices, cy \in Choices}
       \cup {Obj([x |-> Obj([x |-> Num(7)])])}

PageValues == {Num(7), Null, Array} \cup PageObjects

\* window.IMMERSIVE_CONFIG || {}
PageConfigs ==
  LET Options == {"fallbackAnimationSpeed", "fallbackAnimationRadius"}
  IN UNION {[keys -> PageValues] : keys \in SUBSET Options}

RECURSIVE deepMerge(_, _, _)
RECURSIVE mergeKeys(_, _, _, _, _)

\* the for-in loop of deepMerge over the keys not yet visited; result and
\* target are addresses, target is 0 for target[key] || {} of no object
mergeKeys(heap, result, target, source, keys) ==
  IF keys = {} THEN [heap |-> heap, addr |-> result]
  ELSE LET key == CHOOSE k \in keys : TRUE
           inner == IF target # 0 /\ key \in DOMAIN heap[target]
                       /\ heap[target][key].t = "ref"
                    THEN heap[target][key].v ELSE 0
       IN IF source[key].t = "obj"
          THEN LET merged == deepMerge(heap, inner, source[key].v)
               IN mergeKeys([merged.heap EXCEPT ![result] =
                               Assign(@, key, Ref(merged.addr))],
                            result, target, source, keys \ {key})
          ELSE mergeKeys([heap EXCEPT ![result] = Assign(@, key, source[key])],
                         result, target, source, keys \ {key})

\* result = { ...target }, then the loop
deepMerge(heap, target, source) ==
  mergeKeys(Append(heap, IF target = 0 THEN EmptyObject ELSE heap[target]),
            Len(heap) + 1, target, source, DOMAIN source)

getConfig(heap, userConfig) == deepMerge(heap, DEFAULT_CONFIG, userConfig)

\* this.config.fallbackAnimationSpeed = speed
setSpeed(heap, config, speed) ==
  [heap EXCEPT ![config] = Assign(@, "fallbackAnimationSpeed", speed)]

\* a setRadius that writes into the object the configuration refers to
setRadius_inPlace(heap, config, radius) ==
  LET held == heap[config]["fallbackAnimationRadius"]
  IN IF held.t = "ref" THEN [heap EXCEPT ![held.v] = heap[radius]]
     ELSE [heap EXCEPT ![config] =
             Assign(@, "fallbackAnimationRadius", Ref(radius))]

\* this.config.fallbackAnimationRadius = radius
setRadius(heap, config, radius) ==
  [heap EXCEPT ![config] = Assign(@, "fallbackAnimationRadius", Ref(radius))]

\* an object of the heap, or a value, with the references followed
RECURSIVE Contents(_, _)
Contents(heap, value) ==
  IF value.t = "ref"
  THEN Obj([k \in DOMAIN heap[value.v] |-> Contents(heap, heap[value.v][k])])
  ELSE value

ConfigInit ==
  /\ SessionIdle
  /\ \E userConfig \in PageConfigs :
       calc = [fn |-> "config", in |-> userConfig,
               out |-> [heap |-> DefaultHeap, config |-> 0, sets |-> 0]]

CalcGetConfig ==
  /\ calc.fn = "config" /\ calc.out.config = 0
  /\ LET merged == getConfig(calc.out.heap, calc.in)
     IN calc' = [calc EXCEPT !.out.heap = merged.heap,
                             !.out.config = merged.addr]
  /\ SessionUnchanged

\* setSpeed(this.config.fallbackAnimationSpeed * 0.3) of the reduced-motion setting
CalcSetSpeed ==
  /\ calc.fn = "config" /\ calc.out.config # 0 /\ calc.out.sets \in {0, 2}
  /\ calc' = [calc EXCEPT
                !.out.heap = setSpeed(@, calc.out.config, Num(1)),
                !.out.sets = @ + 1]
  /\ SessionUnchanged

\* setRadius({ x: 0.1, y: 0.05 }): the argument is a new object
CalcSetRadius ==
  /\ calc.fn = "config" /\ calc.out.config # 0 /\ calc.out.sets \in {0, 1}
  /\ LET heap == Append(calc.out.heap, [x |-> Num(10), y |-> Num(5)])
     IN calc' = [calc EXCEPT
                   !.out.heap = setRadius(heap, calc.out.config, Len(heap)),
                   !.out.sets = @ + 2]
  /\ SessionUnchanged

ConfigNext == CalcGetConfig \/ CalcSetSpeed \/ CalcSetRadius

ConfigSpec == ConfigInit /\ [][ConfigNext]_vars

\* the option by option result the page's configuration and the defaults give
RECURSIVE Overridden(_, _)
Overridden(default, page) ==
  [k \in DOMAIN default \cup DOMAIN page |->
     IF k \notin DOMAIN page THEN default[k]
     ELSE IF page[k].t # "obj" THEN page[k]
     ELSE Obj(Overridden(IF k \in DOMAIN default /\ default[k].t = "obj"
                         THEN default[k].v ELSE EmptyObject,
                         page[k].v))]

C30_SpotlightPreviewHidden ==
  (build = "spotlight" /\ bg.activeTracker = "face")
    => faceTracker.preview \in {"hidden", "removed"}

\* the spotlight build runs on the face tracker, whose preview exists, hidden
C30_Witness ==
  /\ build = "spotlight" /\ bg.activeTracker = "face"
  /\ faceTracker.isRunning /\ faceTracker.preview = "hidden"

\* ---- CameraController: setTargetOffset, update and reset on delivered values ----
\* clamp(value * trackingSensitivity * max, -max, max) of a delivered value:
\* Math.max and Math.min return NaN when an argument is NaN
Camera_targetAxis(value, trackingSensitivity, max) ==
  IF value.kind = "nan" THEN NotANumber
  ELSE Number(clamp(QMul(QMul(value.q, trackingSensitivity), max),
                    QNeg(max), max))

\* setTargetOffset(x, y, z)
Camera_setTargetOffset(c, delivered, trackingSensitivity, maxCameraOffset) ==
  [c EXCEPT !.targetOffset =
     [axis \in 1..3 |-> Camera_targetAxis(delivered[axis], trackingSensitivity,
                                          maxCameraOffset[axis])]]

\* lerp(start, end, t) on values that may be NaN
Camera_lerpAxis(start, end, t) ==
  IF start.kind = "nan" \/ end.kind = "nan" THEN NotANumber
  ELSE Number(lerp(start.q, end.q, t))

\* update(deltaTime) on offsets that may be NaN
Camera_updateOffset(c, smoothing, frames) ==
  LET t == QSub(Q(1, 1), Pow(QSub(Q(1, 1), smoothing), frames))
  IN [c EXCEPT !.currentOffset =
        [axis \in 1..3 |-> Camera_lerpAxis(c.currentOffset[axis],
                                           c.targetOffset[axis], t)]]

\* reset(immediate)
Camera_reset(c, immediate) ==
  LET zero == [axis \in 1..3 |-> Number(Q(0, 1))]
  IN [c EXCEPT !.targetOffset = zero,
               !.currentOffset = IF immediate THEN zero ELSE @]

\* what a tracker may pass to onUpdate: values inside and outside [-1, 1],
\* and NaN (an orientation event with a NaN angle, a detection of area 0
\* that becomes the baseline)
Deliveries ==
  {<<Number(Q(1, 1)), Number(Q(-1, 1)), Number(Q(1, 2))>>,
   <<Number(Q(-3, 1)), Number(Q(2, 1)), Number(Q(-2, 1))>>,
   <<Number(Q(1, 4)), Number(Q(5, 1)), Number(Q(0, 1))>>,
   <<Number(Q(0, 1)), Number(Q(0, 1)), NotANumber>>,
   <<NotANumber, Number(Q(1, 2)), Number(Q(0, 1))>>}

\* smoothingFactor in (0, 1), trackingSensitivity, maxCameraOffset
BoundInit ==
  /\ SessionIdle
  /\ \E smoothing \in Smoothings \ {Q(1, 1)},
        trackingSensitivity \in {Q(8, 10), Q(2, 1)} :
       calc = [fn |-> "camera",
               in |-> <<smoothing, trackingSensitivity,
                        <<Q(8, 1), Q(14, 10), Q(3, 1)>>>>,
               out |-> [currentOffset |-> [axis \in 1..3 |-> Number(Q(0, 1))],
                        targetOffset |-> [axis \in 1..3 |-> Number(Q(0, 1))],
                        calls |-> 0]]

CalcSetTargetOffset ==
  /\ calc.fn = "camera" /\ calc.out.calls < MaxCalls
  /\ \E delivered \in Deliveries :
       calc' = [calc EXCEPT !.out =
                  [Camera_setTargetOffset(@, delivered, calc.in[2], calc.in[3])
                     EXCEPT !.calls = @ + 1]]
  /\ SessionUnchanged

CalcUpdateOffset ==
  /\ calc.fn = "camera" /\ calc.out.calls < MaxCalls
  /\ \E deltaTime \in 0..SubSteps :
       calc' = [calc EXCEPT !.out =
                  [Camera_updateOffset(@, calc.in[1], Q(deltaTime, SubSteps))
                     EXCEPT !.calls = @ + 1]]
  /\ SessionUnchanged

CalcReset ==
  /\ calc.fn = "camera" /\ calc.out.calls < MaxCalls
  /\ \E immediate \in BOOLEAN :
       calc' = [calc EXCEPT !.out =
                  [Camera_reset(@, immediate) EXCEPT !.calls = @ + 1]]
  /\ SessionUnchanged

BoundNext == CalcSetTargetOffset \/ CalcUpdateOffset \/ CalcReset

BoundSpec == BoundInit /\ [][BoundNext]_vars

\* C31: for every sequence of setTargetOffset, update(deltaTime >= 0) and
\* reset calls with smoothingFactor in (0, 1), each axis of targetOffset and
\* of currentOffset is a number within [-maxCameraOffset.axis,
\* +maxCameraOffset.axis], whatever values the trackers deliver.
C31_OffsetsWithinMax ==
  calc.fn = "camera" =>
    \A axis \in 1..3 :
      LET max == calc.in[3][axis]
          Within(value) == value.kind = "num" /\ QLeq(QAbs(value.q), max)
      IN Within(calc.out.targetOffset[axis])
           /\ Within(calc.out.currentOffset[axis])

\* ---- the render loop: start, pause, resume, animate ----
\* the loop of a background as constructed: animationId 0 is null, pending
\* holds the ids requestAnimationFrame returned and that neither fired nor
\* were cancelled; last describes the latest call, redundant records that
\* start() or resume() was called while running
NewLoop ==
  [isRunning |-> FALSE, animationId |-> 0, pending |-> {}, nextId |-> 1,
   hidden |-> FALSE, redundant |-> FALSE,
   last |-> [op |-> "none", wasRunning |-> FALSE, requested |-> 0,
             rendered |-> FALSE, updated |-> FALSE]]

\* animate(): nothing unless running; otherwise request the next frame, update
\* the fallback animator if it is the active source, and render
Loop_animate(l, activeTracker) ==
  IF ~l.isRunning THEN l
  ELSE [l EXCEPT !.animationId = l.nextId,
                 !.pending = @ \cup {l.nextId},
                 !.nextId = @ + 1,
                 !.last.requested = @ + 1,
                 !.last.rendered = TRUE,
                 !.last.updated = (activeTracker = "fallback")]

\* start(): if (this.isRunning) return; isRunning = true; animate()
Loop_start(l, activeTracker) ==
  IF l.isRunning THEN l
  ELSE Loop_animate([l EXCEPT !.isRunning = TRUE], activeTracker)

\* a pause() that leaves the requested frame outstanding
Loop_pause_keepsRequest(l) == [l EXCEPT !.isRunning = FALSE]

\* pause(): isRunning = false; cancelAnimationFrame(animationId) if it is set
Loop_pause(l) ==
  IF l.animationId # 0
  THEN [l EXCEPT !.isRunning = FALSE, !.pending = @ \ {l.animationId},
                 !.animationId = 0]
  ELSE [l EXCEPT !.isRunning = FALSE]

\* resume(): if (!this.isRunning) { isRunning = true; animate() }
Loop_resume(l, activeTracker) ==
  IF ~l.isRunning
  THEN Loop_animate([l EXCEPT !.isRunning = TRUE], activeTracker)
  ELSE l

\* the call that is about to run
Loop_enter(l, op) ==
  [l EXCEPT !.last = [op |-> op, wasRunning |-> l.isRunning, requested |-> 0,
                      rendered |-> FALSE, updated |-> FALSE],
            !.redundant = @ \/ (op \in {"start", "resume"} /\ l.isRunning)]

\* in is <<activeTracker>>
LoopInit ==
  /\ SessionIdle
  /\ \E activeTracker \in {"fallback", "face", "gyroscope", "mouse"} :
       calc = [fn |-> "loop", in |-> <<activeTracker>>, out |-> NewLoop]

CalcLoopStart ==
  /\ calc.fn = "loop" /\ calc.out.nextId <= MaxRequests
  /\ calc' = [calc EXCEPT !.out = Loop_start(Loop_enter(@, "start"), calc.in[1])]
  /\ SessionUnchanged

CalcLoopPause ==
  /\ calc.fn = "loop"
  /\ calc' = [calc EXCEPT !.out = Loop_pause(Loop_enter(@, "pause"))]
  /\ SessionUnchanged

CalcLoopResume ==
  /\ calc.fn = "loop" /\ calc.out.nextId <= MaxRequests
  /\ calc' = [calc EXCEPT !.out = Loop_resume(Loop_enter(@, "resume"), calc.in[1])]
  /\ SessionUnchanged

\* visibilitychange: pause() if document.hidden, resume() otherwise
CalcLoopVisibility ==
  /\ calc.fn = "loop" /\ calc.out.nextId <= MaxRequests
  /\ LET l == [calc.out EXCEPT !.hidden = ~@]
     IN calc' = [calc EXCEPT !.out =
                   IF l.hidden THEN Loop_pause(Loop_enter(l, "pause"))
                   ELSE Loop_resume(Loop_enter(l, "resume"), calc.in[1])]
  /\ SessionUnchanged

\* the browser runs the callback of an outstanding request
CalcLoopFrame ==
  /\ calc.fn = "loop" /\ calc.out.nextId <= MaxRequests
  /\ \E id \in calc.out.pending :
       calc' = [calc EXCEPT !.out =
                  Loop_animate(Loop_enter([@ EXCEPT !.pending = @ \ {id}],
                                          "frame"),
                               calc.in[1])]
  /\ SessionUnchanged

LoopNext ==
  \/ CalcLoopStart
  \/ CalcLoopPause
  \/ CalcLoopResume
  \/ CalcLoopVisibility
  \/ CalcLoopFrame

LoopSpec == LoopInit /\ [][LoopNext]_vars

\* C32: for any interleaving of start(), pause(), resume(), visibility
\* changes and animation-frame callbacks at most one animation-frame request
\* is outstanding; while paused none is outstanding and no frame is rendered;
\* start() or resume() while already running starts no second loop.
C32_SingleRenderLoop ==
  calc.fn = "loop" =>
    LET l == calc.out
    IN /\ Cardinality(l.pending) <= 1
       /\ ~l.isRunning => (l.pending = {} /\ ~l.last.rendered)
       /\ (l.last.op = "frame" /\ ~l.last.wasRunning) => ~l.last.rendered
       /\ (l.last.op \in {"start", "resume"} /\ l.last.wasRunning)
            => l.last.requested = 0

\* after a start() or resume() made while running, the loop was paused and
\* resumed and has one request outstanding
C32_Witness ==
  /\ calc.fn = "loop" /\ calc.out.redundant
  /\ calc.out.last.op = "resume" /\ ~calc.out.last.wasRunning
  /\ calc.out.last.rendered
  /\ Cardinality(calc.out.pending) = 1 /\ calc.out.nextId > 3

\* ---- the ambient speed under reduced motion ----
\* C33: every time the reduced-motion preference turns on, at startup or on
\* a later change event, the fallback animator's speed becomes 0.3 times the
\* originally configured fallbackAnimationSpeed, not 0.3 times the already
\* reduced value: whenever the speed is set, it is the configured speed
\* multiplied by 0.3 once.
C33_ReducedSpeedIdempotent ==
  [][fallbackAnimator'.speedExp # fallbackAnimator.speedExp
       => fallbackAnimator'.speedExp = 1]_vars

\* ---- the camera after a start() that resolved false ----
\* C34: whenever FaceTracker.start() resolves false, no camera stream
\* acquired during that call is live afterwards: the failure path releases
\* the camera without the coordinator calling stop().
C34_FalseStartReleasesCamera ==
  [][(faceTracker.startPc \in StartPending /\ faceTracker'.startPc = "failed")
       => ~faceTracker'.stream]_vars

\* ---- one FaceTracker driven through its start() and stop() methods ----
\* detectFace after its await on send(): the results were handled (or send
\* threw) and the next timer is armed, isRunning not being read again
Face_sendSettled(t, detected) ==
  [Face_handleResults(t, detected) EXCEPT !.sends = t.sends - 1,
                                          !.timers = t.timers + 1,
                                          !.handleLive = TRUE]

\* a detectFace timer fires; tracked tells whether it is the one whose
\* handle detectionInterval holds
Face_timerFired(t, tracked) ==
  Face_detectFace([t EXCEPT !.timers = t.timers - 1,
                            !.handleLive = t.handleLive /\ ~tracked])

\* the tracker as constructed; starts counts the calls of start()
ChainInit ==
  /\ SessionIdle
  /\ calc = [fn |-> "chain", in |-> <<>>,
             out |-> [t |-> NewFaceTracker, starts |-> 0]]

\* start() is called while no other start() is pending
CalcChainStart ==
  /\ calc.fn = "chain" /\ calc.out.starts < MaxStarts
  /\ calc.out.t.startPc \notin StartPending
  /\ calc' = [calc EXCEPT !.out.t = Face_startBegin(@),
                          !.out.starts = @ + 1]
  /\ SessionUnchanged

\* what start() awaits settles: the script, getUserMedia, the video
CalcChainSettles ==
  /\ calc.fn = "chain" /\ calc.out.t.startPc \in StartPending
  /\ \E ok \in BOOLEAN :
       LET t == calc.out.t
       IN calc' = [calc EXCEPT !.out.t =
            IF ~ok THEN Face_startCatch(t, "denied")
            ELSE IF t.startPc = "loading"
                 THEN [t EXCEPT !.isInitialized = TRUE, !.startPc = "awaitGUM"]
            ELSE IF t.startPc = "awaitGUM"
                 THEN [t EXCEPT !.stream = TRUE, !.startPc = "awaitVideo"]
            ELSE Face_startFinish(t)]
  /\ SessionUnchanged

CalcChainStop ==
  /\ calc.fn = "chain"
  /\ calc' = [calc EXCEPT !.out.t = Face_stop(@)]
  /\ SessionUnchanged

CalcChainSend ==
  /\ calc.fn = "chain" /\ calc.out.t.sends > 0
  /\ \E detected \in BOOLEAN :
       calc' = [calc EXCEPT !.out.t = Face_sendSettled(@, detected)]
  /\ SessionUnchanged

CalcChainTimer ==
  /\ calc.fn = "chain" /\ calc.out.t.timers > 0
  /\ \E tracked \in BOOLEAN :
       /\ tracked => calc.out.t.handleLive
       /\ ~tracked => calc.out.t.timers > (IF calc.out.t.handleLive THEN 1 ELSE 0)
       /\ calc' = [calc EXCEPT !.out.t = Face_timerFired(@, tracked)]
  /\ SessionUnchanged

ChainNext ==
  \/ CalcChainStart
  \/ CalcChainSettles
  \/ CalcChainStop
  \/ CalcChainSend
  \/ CalcChainTimer

ChainSpec == ChainInit /\ [][ChainNext]_vars

\* C35: at most one detection-loop timer chain is live per FaceTracker in
\* every reachable state, also after stop() followed by start() and when
\* stop() happened while a send() was awaited: the sends in flight and the
\* armed detectFace timers number at most one together.
C35_SingleDetectionChain ==
  calc.fn = "chain" => calc.out.t.sends + calc.out.t.timers <= 1

\* ---- cleanup() ----
\* cleanup(): pause(), stop() on the face and the gyroscope tracker if they
\* exist; SpotlightBackground also removes the pointer listeners and the
\* permission control.  The fallback animator, the settle timer and the
\* listeners of setupEventListeners are not touched.  calc records that
\* cleanup() has returned, and the calls made to the browser until then
Cleanup ==
  /\ pc = "ready" /\ calc.fn = "none"
  /\ bg' = [(IF build = "spotlight" THEN disableMouseTracking(bg) ELSE bg)
              EXCEPT !.isRunning = FALSE]
  /\ faceTracker' = IF faceTracker.exists THEN Face_stop(faceTracker)
                    ELSE faceTracker
  /\ gyroscopeTracker' = IF gyroscopeTracker.exists
                         THEN Gyro_stop(gyroscopeTracker) ELSE gyroscopeTracker
  /\ permissionButton' = IF build = "spotlight"
                         THEN [shown |-> FALSE, listener |-> FALSE]
                         ELSE permissionButton
  /\ calc' = [fn |-> "cleanup", in |-> calls, out |-> <<0, 0>>]
  /\ UNCHANGED <<build, caps, mq, pc, fallbackAnimator, pendingPerm, cons, calls>>

CleanupNext == Next \/ Cleanup

CleanupSpec == Init /\ [][CleanupNext]_vars

\* C36: after cleanup() returns no estimator reports running in any later
\* state, and nothing registered earlier (the settle timer, the permission
\* click handler, the reduced-motion or visibility listeners) later starts
\* an estimator, requests the camera or a permission, or restarts the
\* render loop.
C36_CleanupIsFinal ==
  calc.fn = "cleanup" =>
    /\ RunningCount = 0
    /\ ~bg.isRunning
    /\ calls = calc.in

\* ---- handleResults over a sequence of results ----
\* a smoothing step that overshoots the raw value
Face_smooth_overshoots(smoothed, raw) ==
  QAdd(smoothed, QMul(QSub(raw, smoothed), Q(23, 20)))

\* smoothedPosition.axis += (raw - smoothedPosition.axis) * 0.15
Face_smooth(smoothed, raw) ==
  QAdd(smoothed, QMul(QSub(raw, smoothed), Q(15, 100)))

\* smoothedPosition.axis *= 0.92, in exact arithmetic
Face_fade(smoothed) == QMul(smoothed, Q(92, 100))

\* the estimate of a new tracker: baseFaceSize 0 stands for null
NewEstimate ==
  [smoothedPosition |-> <<Q(0, 1), Q(0, 1), Q(0, 1)>>, baseFaceSize |-> 0,
   results |-> 0, last |-> "none"]

\* handleResults(results) with a detection: the baseline is set by the first
\* one, the raw offset is smoothed into the estimate, which is emitted
Face_onDetection(e, centerX, centerY, faceSize) ==
  LET base == IF e.baseFaceSize = 0 THEN faceSize ELSE e.baseFaceSize
      rawXY == Face_rawXY(centerX, centerY)
      rawZ == Face_rawZ(Face_sizeRatio(faceSize, base))
  IN [e EXCEPT !.baseFaceSize = base,
               !.smoothedPosition =
                  <<Face_smooth(@[1], rawXY[1]), Face_smooth(@[2], rawXY[2]),
                    Face_smooth(@[3], rawZ)>>,
               !.last = "detection"]

\* handleResults(results) without a detection: the estimate fades and is emitted
Face_onNoDetection(e) ==
  [e EXCEPT !.smoothedPosition = <<Face_fade(@[1]), Face_fade(@[2]), Face_fade(@[3])>>,
            !.last = "nodetection"]

\* detections with the centroid in [0, 1]^2 and a bounding box of area > 0
Centroids ==
  {<<Q(0, 1), Q(0, 1)>>, <<Q(1, 1), Q(1, 1)>>, <<Q(0, 1), Q(1, 1)>>,
   <<Q(Grid \div 2, Grid), Q(1, Grid)>>}

FaceSizes == {1, MaxFaceSize \div 2, MaxFaceSize}

EstimateInit ==
  /\ SessionIdle
  /\ calc = [fn |-> "estimate", in |-> <<>>, out |-> NewEstimate]

CalcOnDetection ==
  /\ calc.fn = "estimate" /\ calc.out.results < MaxResults
  /\ \E centroid \in Centroids, faceSize \in FaceSizes :
       calc' = [calc EXCEPT !.out =
                  [Face_onDetection(@, centroid[1], centroid[2], faceSize)
                     EXCEPT !.results = @ + 1]]
  /\ SessionUnchanged

CalcOnNoDetection ==
  /\ calc.fn = "estimate" /\ calc.out.results < MaxResults
  /\ calc' = [calc EXCEPT !.out =
                [Face_onNoDetection(@) EXCEPT !.results = @ + 1]]
  /\ SessionUnchanged

EstimateNext == CalcOnDetection \/ CalcOnNoDetection

EstimateSpec == EstimateInit /\ [][EstimateNext]_vars

\* C37: for every sequence of detection and no-detection results whose
\* detections have the centroid in [0, 1]^2 and a bounding box of area > 0,
\* every axis of the offset FaceTracker emits lies in [-1, 1].
C37_EstimateWithinUnit ==
  calc.fn = "estimate" =>
    \A axis \in 1..3 :
      QLeq(QAbs(calc.out.smoothedPosition[axis]), Q(1, 1))

\* after detections at a corner with a face larger than the baseline, a
\* result without a face has faded an estimate that is off centre on every axis
C37_Witness ==
  /\ calc.fn = "estimate" /\ calc.out.results = 3
  /\ calc.out.last = "nodetection"
  /\ calc.out.baseFaceSize = 1
  /\ QLess(Q(0, 1), calc.out.smoothedPosition[1])
  /\ QLess(Q(0, 1), calc.out.smoothedPosition[2])
  /\ QLess(calc.out.smoothedPosition[3], Q(0, 1))

\* ---- init() without WebGL ----
\* C38: if supportsWebGL() is false, init() resolves false having constructed
\* no tracker and started no source: no fallback animator runs, no
\* permission control is shown, no settle timer is scheduled and no camera
\* or motion permission is requested.
C38_NoWebGLNothingStarts ==
  ~supportsWebGL =>
    /\ pc \in {"constructed", "unsupported"}
    /\ ~faceTracker.exists /\ ~gyroscopeTracker.exists /\ ~fallbackAnimator.exists
    /\ RunningCount = 0
    /\ bg.activeTracker = "null" /\ ~bg.isRunning
    /\ ~permissionButton.shown /\ ~permissionButton.listener
    /\ bg.settleTimer = "none"
    /\ calls = [gum |-> 0, perm |-> 0, faceStart |-> 0]

\* init() has resolved false on a phone that has an orientation sensor
\* behind a permission, and a camera
C38_Witness ==
  /\ pc = "unsupported" /\ ~supportsWebGL
  /\ isMobile /\ hasGyroscope /\ gyroscopeNeedsPermission /\ hasCameraAccess

====
